---- MODULE Spec2Model ----
(***************************************************************************)
(* A model of the PLY decoder of src/PLYLoader.js (class PLYLoader: parse, *)
(* extractHeader, parseHeader, getReader, parseASCII, parseBinary,         *)
(* buildGeometry) and of the face/colour handlers of its two variants in   *)
(* src/unnamed/part_000 and src/unnamed/part_001.                          *)
(*                                                                         *)
(* Text is modelled at the character level: a string is a sequence of      *)
(* character codes, a byte buffer a sequence of 0..255.  A JavaScript      *)
(* number is an exact rational; NaN and undefined are values of their own. *)
(***************************************************************************)
EXTENDS Integers, Sequences, FiniteSets, TLC

(***************************************************************************)
(* Character codes and the string literals of the source.                  *)
(***************************************************************************)
LF == 10
CR == 13

S_sp == <<32>>
S_ply == <<112, 108, 121>>
S_format == <<102, 111, 114, 109, 97, 116>>
S_comment == <<99, 111, 109, 109, 101, 110, 116>>
S_element == <<101, 108, 101, 109, 101, 110, 116>>
S_property == <<112, 114, 111, 112, 101, 114, 116, 121>>
S_list == <<108, 105, 115, 116>>
S_end_header == <<101, 110, 100, 95, 104, 101, 97, 100, 101, 114>>
S_ascii == <<97, 115, 99, 105, 105>>
S_binary_little_endian == <<98, 105, 110, 97, 114, 121, 95, 108, 105, 116, 116, 108, 101, 95, 101, 110, 100, 105, 97, 110>>
S_binary_big_endian == <<98, 105, 110, 97, 114, 121, 95, 98, 105, 103, 95, 101, 110, 100, 105, 97, 110>>
S_vertex == <<118, 101, 114, 116, 101, 120>>
S_face == <<102, 97, 99, 101>>
S_edge == <<101, 100, 103, 101>>
S_x == <<120>>
S_y == <<121>>
S_z == <<122>>
S_red == <<114, 101, 100>>
S_green == <<103, 114, 101, 101, 110>>
S_blue == <<98, 108, 117, 101>>
S_vertex_indices == <<118, 101, 114, 116, 101, 120, 95, 105, 110, 100, 105, 99, 101, 115>>
S_vertex_index == <<118, 101, 114, 116, 101, 120, 95, 105, 110, 100, 101, 120>>
S_flag == <<102, 108, 97, 103>>
S_a == <<97>>
S_char == <<99, 104, 97, 114>>
S_uchar == <<117, 99, 104, 97, 114>>
S_short == <<115, 104, 111, 114, 116>>
S_ushort == <<117, 115, 104, 111, 114, 116>>
S_int == <<105, 110, 116>>
S_uint == <<117, 105, 110, 116>>
S_float == <<102, 108, 111, 97, 116>>
S_double == <<100, 111, 117, 98, 108, 101>>
S_int8 == <<105, 110, 116, 56>>
S_uint8 == <<117, 105, 110, 116, 56>>
S_int16 == <<105, 110, 116, 49, 54>>
S_uint16 == <<117, 105, 110, 116, 49, 54>>
S_int32 == <<105, 110, 116, 51, 50>>
S_uint32 == <<117, 105, 110, 116, 51, 50>>
S_float32 == <<102, 108, 111, 97, 116, 51, 50>>
S_float64 == <<102, 108, 111, 97, 116, 54, 52>>
S_byte == <<98, 121, 116, 101>>
S_1_0 == <<49, 46, 48>>

(* A token that is not there: parts[k] or body[k] past the end (undefined). *)
NoTok == <<>>

(***************************************************************************)
(* JavaScript string operations used by the loader.                        *)
(***************************************************************************)

(* White space of String.prototype.trim and of \s, within code 0..255. *)
SpaceCodes == {9, 10, 11, 12, 13, 32, 160}

IsSpace(c) == c \in SpaceCodes

IsDigit(c) == c \in 48..57

Min(S) == CHOOSE x \in S : \A y \in S : x <= y

RECURSIVE TrimLeft(_)
TrimLeft(s) ==
    IF s # <<>> /\ IsSpace(Head(s)) THEN TrimLeft(Tail(s)) ELSE s

RECURSIVE TrimRight(_)
TrimRight(s) ==
    IF s # <<>> /\ IsSpace(s[Len(s)])
    THEN TrimRight(SubSeq(s, 1, Len(s) - 1))
    ELSE s

(* line.trim() *)
Trim(s) == TrimRight(TrimLeft(s))


(* The first position from `from` on whose character is in C, 0 if none. *)
FirstIn(s, from, C) ==
    LET S == {j \in from..Len(s) : s[j] \in C}
    IN IF S = {} THEN 0 ELSE Min(S)

(* The first position from `from` on whose character is not in C, 0 if none. *)
FirstNotIn(s, from, C) ==
    LET S == {j \in from..Len(s) : s[j] \notin C}
    IN IF S = {} THEN 0 ELSE Min(S)

RECURSIVE SplitWSFrom(_, _)
(* The pieces of s from position `from` on, separated by runs of white space. *)
SplitWSFrom(s, from) ==
    LET e == FirstIn(s, from, SpaceCodes)
    IN IF e = 0 THEN <<SubSeq(s, from, Len(s))>>
       ELSE LET n == FirstNotIn(s, e, SpaceCodes)
            IN IF n = 0 THEN <<SubSeq(s, from, e - 1), <<>>>>
               ELSE <<SubSeq(s, from, e - 1)>> \o SplitWSFrom(s, n)

(* s.split(/\s+/) *)
SplitWS(s) == SplitWSFrom(s, 1)

DropCR(s) ==
    IF s # <<>> /\ s[Len(s)] = CR THEN SubSeq(s, 1, Len(s) - 1) ELSE s

RECURSIVE SplitLinesFrom(_, _)
(* The pieces of s from position `from` on, separated by \r?\n. *)
SplitLinesFrom(s, from) ==
    LET e == FirstIn(s, from, {LF})
    IN IF e = 0 THEN <<SubSeq(s, from, Len(s))>>
       ELSE <<DropCR(SubSeq(s, from, e - 1))>> \o SplitLinesFrom(s, e + 1)

(* text.split(/\r?\n/) *)
SplitLines(s) == SplitLinesFrom(s, 1)

RECURSIVE Join(_, _)
(* lines.join(sep) *)
Join(lines, sep) ==
    IF lines = <<>> THEN <<>>
    ELSE IF Len(lines) = 1 THEN lines[1]
    ELSE lines[1] \o sep \o Join(Tail(lines), sep)

(* Whether pat occurs in s at 1-based position i. *)
OccursAt(s, pat, i) ==
    /\ i >= 1
    /\ i + Len(pat) - 1 <= Len(s)
    /\ SubSeq(s, i, i + Len(pat) - 1) = pat

(* Whether s contains pat. *)
Contains(s, pat) == \E i \in 1..Len(s) : OccursAt(s, pat, i)

(* The first position at or after i where pat occurs in s, 0 if none. *)
IndexFrom(s, pat, i) ==
    IF \E j \in i..Len(s) : OccursAt(s, pat, j)
    THEN CHOOSE j \in i..Len(s) :
            OccursAt(s, pat, j) /\ \A k \in i..(j - 1) : ~OccursAt(s, pat, k)
    ELSE 0

(***************************************************************************)
(* JavaScript numbers: an exact rational n/d in lowest terms, NaN, or      *)
(* undefined.                                                              *)
(***************************************************************************)
RECURSIVE Gcd(_, _)
Gcd(a, b) == IF b = 0 THEN a ELSE Gcd(b, a % b)

Abs(a) == IF a < 0 THEN -a ELSE a

Rat(n, d) ==
    LET g == Gcd(Abs(n), d)
    IN [k |-> "num", n |-> n \div g, d |-> d \div g]

Num(n) == [k |-> "num", n |-> n, d |-> 1]
NaN == [k |-> "nan", n |-> 0, d |-> 1]
Undef == [k |-> "undef", n |-> 0, d |-> 1]

IsNum(v) == v.k = "num"

(* v / c for a positive integer constant c; undefined and NaN give NaN, a  *)
(* float the model does not compute stays one.                             *)
DivBy(v, c) ==
    IF IsNum(v) THEN Rat(v.n, v.d * c)
    ELSE IF v.k = "float?" THEN v ELSE NaN

(* v > c for an integer constant c; false for NaN and undefined. *)
GreaterThan(v, c) == IsNum(v) /\ v.n > c * v.d

(* i < v, the loop test of `for (i = 0; i < count; i++)`; false for NaN. *)
LessThan(i, v) == IsNum(v) /\ i * v.d < v.n

RECURSIVE DigitsPrefix(_)
DigitsPrefix(s) ==
    IF s # <<>> /\ IsDigit(Head(s))
    THEN <<Head(s)>> \o DigitsPrefix(Tail(s))
    ELSE <<>>

RECURSIVE DigitsValue(_, _)
DigitsValue(s, acc) ==
    IF s = <<>> THEN acc ELSE DigitsValue(Tail(s), acc * 10 + (Head(s) - 48))

RECURSIVE Pow10(_)
Pow10(k) == IF k = 0 THEN 1 ELSE 10 * Pow10(k - 1)

(* parseInt(tok), radix 10: optional sign, then the leading digits; NaN   *)
(* when there are none (also for undefined).  Hexadecimal prefixes are not *)
(* modelled.                                                               *)
ParseInt(tok) ==
    LET t == TrimLeft(tok)
        neg == t # <<>> /\ Head(t) = 45
        u == IF t # <<>> /\ Head(t) \in {43, 45} THEN Tail(t) ELSE t
        ds == DigitsPrefix(u)
    IN IF ds = <<>> THEN NaN
       ELSE Num(IF neg THEN -DigitsValue(ds, 0) ELSE DigitsValue(ds, 0))

(* parseFloat(tok): optional sign, digits, optional fraction; NaN when no  *)
(* digit is found.  Exponents and Infinity are not modelled.               *)
ParseFloat(tok) ==
    LET t == TrimLeft(tok)
        neg == t # <<>> /\ Head(t) = 45
        u == IF t # <<>> /\ Head(t) \in {43, 45} THEN Tail(t) ELSE t
        ip == DigitsPrefix(u)
        rest == SubSeq(u, Len(ip) + 1, Len(u))
        fp == IF rest # <<>> /\ Head(rest) = 46
              THEN DigitsPrefix(Tail(rest)) ELSE <<>>
        mag == DigitsValue(ip, 0) * Pow10(Len(fp)) + DigitsValue(fp, 0)
    IN IF ip = <<>> /\ fp = <<>> THEN NaN
       ELSE Rat(IF neg THEN -mag ELSE mag, Pow10(Len(fp)))

(***************************************************************************)
(* extractHeader: the byte scan for the end_header line.                   *)
(***************************************************************************)
RECURSIVE ExtractLoop(_, _, _)
(* The while loop from the start of a line: idx is the JavaScript index of *)
(* the next byte.  The bytes up to the next \n or \r are appended to line; *)
(* when there is no such byte the loop runs off the end and the function   *)
(* throws.  At the line break idx has passed it.                           *)
ExtractLoop(bytes, idx, lines) ==
    LET brk == FirstIn(bytes, idx + 1, {LF, CR})
    IN IF brk = 0
       THEN [ok |-> FALSE, headerText |-> <<>>, headerLength |-> 0]
       ELSE LET line == SubSeq(bytes, idx + 1, brk - 1)
                next == brk
                trimmed == Trim(line)
                pushed == Append(lines, trimmed)
            IN IF trimmed = S_end_header
               THEN [ok |-> TRUE,
                     headerText |-> Join(pushed, <<LF>>),
                     headerLength |-> next]
               ELSE ExtractLoop(bytes, next, pushed)

(* An extractor that returns what it has read when no terminator line is  *)
(* found, as extractHeaderText of src/unnamed/part_000 does.               *)
extractHeaderLenient(bytes) ==
    LET r == ExtractLoop(bytes, 0, <<>>)
    IN IF r.ok THEN r
       ELSE [ok |-> TRUE, headerText |-> <<>>, headerLength |-> Len(bytes)]

extractHeader(bytes) == ExtractLoop(bytes, 0, <<>>)

(***************************************************************************)
(* parseHeader: header text to schema.                                     *)
(***************************************************************************)
(* parts[k] after parts.shift(), k counted from 0; undefined past the end. *)
Part(parts, k) == IF k + 1 <= Len(parts) THEN parts[k + 1] ELSE NoTok

(* `current = null` is open = FALSE; NullElem fills the unused field. *)
NullElem == [name |-> NoTok, count |-> NaN, properties |-> <<>>]

HeaderInit ==
    [ok |-> TRUE, format |-> <<>>, elements |-> <<>>,
     open |-> FALSE, current |-> NullElem]

(* The `property` case: a list property or a scalar one. *)
MakeProperty(parts) ==
    IF Part(parts, 0) = S_list
    THEN [type |-> S_list, countType |-> Part(parts, 1),
          itemType |-> Part(parts, 2), name |-> Part(parts, 3)]
    ELSE [type |-> Part(parts, 0), countType |-> NoTok,
          itemType |-> NoTok, name |-> Part(parts, 1)]

(* The `element` case: the count is parseInt of the second token. *)
MakeElement(parts) ==
    [name |-> Part(parts, 0), count |-> ParseInt(Part(parts, 1)),
     properties |-> <<>>]

(* One iteration of `for (let line of lines)`.  A property line while      *)
(* current is null dereferences null: a TypeError (ok = FALSE).            *)
HeaderLine(h, rawLine) ==
    LET line == Trim(rawLine)
    IN IF ~h.ok \/ line = <<>> THEN h
       ELSE LET toks == SplitWS(line)
                key == toks[1]
                parts == Tail(toks)
            IN CASE key = S_format -> [h EXCEPT !.format = Part(parts, 0)]
                 [] key = S_element ->
                        [h EXCEPT
                           !.elements = IF h.open THEN Append(@, h.current) ELSE @,
                           !.open = TRUE,
                           !.current = MakeElement(parts)]
                 [] key = S_property ->
                        IF ~h.open THEN [h EXCEPT !.ok = FALSE]
                        ELSE [h EXCEPT !.current.properties =
                                          Append(@, MakeProperty(parts))]
                 [] OTHER -> h

RECURSIVE HeaderLines(_, _)
HeaderLines(h, lines) ==
    IF lines = <<>> THEN h
    ELSE HeaderLines(HeaderLine(h, Head(lines)), Tail(lines))

parseHeader(text) ==
    LET h == HeaderLines(HeaderInit, SplitLines(text))
    IN [ok |-> h.ok, format |-> h.format,
        elements |-> IF h.open THEN Append(h.elements, h.current)
                     ELSE h.elements]

(***************************************************************************)
(* getReader and the DataView reads.                                       *)
(***************************************************************************)
(* The reader of a type spelling: def = FALSE is the undefined that the    *)
(* switch falls through to for any other spelling.                         *)
getReader(type) ==
    CASE type \in {S_char, S_int8} -> [def |-> TRUE, size |-> 1, fam |-> "int"]
      [] type \in {S_uchar, S_uint8} -> [def |-> TRUE, size |-> 1, fam |-> "uint"]
      [] type \in {S_short, S_int16} -> [def |-> TRUE, size |-> 2, fam |-> "int"]
      [] type \in {S_ushort, S_uint16} -> [def |-> TRUE, size |-> 2, fam |-> "uint"]
      [] type \in {S_int, S_int32} -> [def |-> TRUE, size |-> 4, fam |-> "int"]
      [] type \in {S_uint, S_uint32} -> [def |-> TRUE, size |-> 4, fam |-> "uint"]
      [] type \in {S_float, S_float32} -> [def |-> TRUE, size |-> 4, fam |-> "float"]
      [] type \in {S_double, S_float64} -> [def |-> TRUE, size |-> 8, fam |-> "float"]
      [] OTHER -> [def |-> FALSE, size |-> 0, fam |-> "none"]

(* The readers of one element: props.map(p => ...). *)
MakeReaders(props) ==
    [i \in 1..Len(props) |->
        IF props[i].type = S_list
        THEN [isList |-> TRUE, name |-> props[i].name,
              reader |-> getReader(NoTok),
              countReader |-> getReader(props[i].countType),
              itemReader |-> getReader(props[i].itemType)]
        ELSE [isList |-> FALSE, name |-> props[i].name,
              reader |-> getReader(props[i].type),
              countReader |-> getReader(NoTok),
              itemReader |-> getReader(NoTok)]]

Reverse(s) == [i \in 1..Len(s) |-> s[Len(s) + 1 - i]]

RECURSIVE UintOf(_)
(* The unsigned value of bytes given most significant first. *)
UintOf(be) ==
    IF be = <<>> THEN 0
    ELSE be[Len(be)] + 256 * UintOf(SubSeq(be, 1, Len(be) - 1))

RECURSIVE Pow256(_)
Pow256(k) == IF k = 0 THEN 1 ELSE 256 * Pow256(k - 1)

(* The two's complement value of bytes given most significant first. *)
IntOf(be) ==
    IF be[1] >= 128 THEN UintOf(be) - Pow256(Len(be)) ELSE UintOf(be)

(* An IEEE 754 value outside the ones tabulated below: a number the model  *)
(* does not compute.                                                       *)
Unmodelled == [k |-> "float?", n |-> 0, d |-> 1]

(* getFloat32 / getFloat64 on the bit patterns of 0, 0.5, 1, 2 and 255. *)
FloatOf(be) ==
    CASE be \in {<<0, 0, 0, 0>>, <<0, 0, 0, 0, 0, 0, 0, 0>>} -> Num(0)
      [] be \in {<<63, 0, 0, 0>>, <<63, 224, 0, 0, 0, 0, 0, 0>>} -> Rat(1, 2)
      [] be \in {<<63, 128, 0, 0>>, <<63, 240, 0, 0, 0, 0, 0, 0>>} -> Num(1)
      [] be \in {<<64, 0, 0, 0>>, <<64, 0, 0, 0, 0, 0, 0, 0>>} -> Num(2)
      [] be \in {<<67, 127, 0, 0>>, <<64, 111, 224, 0, 0, 0, 0, 0>>} -> Num(255)
      [] OTHER -> Unmodelled

(* A DataView over buf starting at byteOffset: dv.getX(o, little) of the   *)
(* reader rd.  ok = FALSE is the RangeError of a read outside the view;    *)
(* from is the index in buf of the first byte read.                        *)
DataViewRead(buf, byteOffset, rd, o, little) ==
    IF o < 0 \/ o + rd.size > Len(buf) - byteOffset
    THEN [ok |-> FALSE, from |-> byteOffset + o, v |-> Undef]
    ELSE LET raw == SubSeq(buf, byteOffset + o + 1, byteOffset + o + rd.size)
             be == IF little THEN Reverse(raw) ELSE raw
         IN [ok |-> TRUE,
             from |-> byteOffset + o,
             v |-> CASE rd.fam = "uint" -> Num(UintOf(be))
                     [] rd.fam = "int" -> Num(IntOf(be))
                     [] OTHER -> FloatOf(be)]

(***************************************************************************)
(* The pieces of one record's decoding shared by the two body decoders.    *)
(***************************************************************************)
(* let x, y, z, r, g, b; *)
NoRec == [x |-> Undef, y |-> Undef, z |-> Undef,
          r |-> Undef, g |-> Undef, b |-> Undef]

(* if (p.name === "x") x = v; ... if (p.name === "blue") b = v; *)
Assign(rec, name, v) ==
    [x |-> IF name = S_x THEN v ELSE rec.x,
     y |-> IF name = S_y THEN v ELSE rec.y,
     z |-> IF name = S_z THEN v ELSE rec.z,
     r |-> IF name = S_red THEN v ELSE rec.r,
     g |-> IF name = S_green THEN v ELSE rec.g,
     b |-> IF name = S_blue THEN v ELSE rec.b]

(* normalizeColor(v): defined by the class, called by neither decoder. *)
normalizeColor(v) == IF GreaterThan(v, 1) THEN DivBy(v, 255) ELSE v

(* A component stored as it was read. *)
RawComponent(v) == v

(* The colour component the decoders store: _color.setRGB(r/255, ...) and  *)
(* _color.r read back; setRGB in the working colour space stores its       *)
(* arguments.                                                              *)
ColorComponent(v) == DivBy(v, 255)

(* vertices.push(x, y, z) *)
PushVertex(vs, rec) == vs \o <<rec.x, rec.y, rec.z>>

(* if (r != null) { setRGB(...); colors.push(_color.r, _color.g, _color.b) } *)
PushColor(cs, rec) ==
    IF rec.r # Undef
    THEN cs \o <<ColorComponent(rec.r), ColorComponent(rec.g),
                 ColorComponent(rec.b)>>
    ELSE cs

(* parseASCII's triangle emission for one face list. *)
EmitFaceASCII(ix, vs) ==
    IF Len(vs) = 3 THEN ix \o <<vs[1], vs[2], vs[3]>>
    ELSE IF Len(vs) = 4
         THEN ix \o <<vs[1], vs[2], vs[3]>> \o <<vs[3], vs[4], vs[1]>>
         ELSE ix

(* An emission that fans a list of any length from its first index. *)
EmitFaceFan(ix, vs) ==
    ix \o (IF Len(vs) < 3 THEN <<>>
           ELSE <<vs[1], vs[2], vs[3]>>
                \o (IF Len(vs) > 3 THEN <<vs[3], vs[4], vs[1]>> ELSE <<>>)
                \o (IF Len(vs) > 4 THEN <<vs[4], vs[5], vs[1]>> ELSE <<>>))

(* parseBinary's triangle emission for one face list. *)
EmitFaceBinary(ix, vs) ==
    IF Len(vs) = 3 THEN ix \o <<vs[1], vs[2], vs[3]>>
    ELSE IF Len(vs) = 4
         THEN ix \o <<vs[1], vs[2], vs[3]>> \o <<vs[3], vs[4], vs[1]>>
         ELSE ix

(* handleElement of src/unnamed/part_000, face branch. *)
HandleFace000(ix, v) ==
    IF Len(v) = 3 THEN ix \o <<v[1], v[2], v[3]>>
    ELSE IF Len(v) = 4
         THEN ix \o <<v[1], v[2], v[3]>> \o <<v[3], v[4], v[1]>>
         ELSE ix

(* handleElement of src/unnamed/part_001 (second loader), face branch. *)
HandleFace001(ix, vi) ==
    IF Len(vi) = 3 THEN ix \o <<vi[1], vi[2], vi[3]>>
    ELSE IF Len(vi) = 4
         THEN ix \o <<vi[1], vi[2], vi[4]>> \o <<vi[2], vi[3], vi[4]>>
         ELSE ix

(* new Float32BufferAttribute(values, 3): undefined is stored as NaN.      *)
(* Rounding to single precision is not modelled.                           *)
ToFloat32(vals) ==
    [i \in 1..Len(vals) |-> IF vals[i] = Undef THEN NaN ELSE vals[i]]

(* A builder that attaches the colour attribute whenever any colour was    *)
(* pushed.                                                                 *)
buildGeometryAnyColor(vs, cs, ix) ==
    [position |-> ToFloat32(vs),
     hasColor |-> Len(cs) > 0,
     color |-> IF Len(cs) > 0 THEN ToFloat32(cs) ELSE <<>>,
     hasIndex |-> Len(ix) > 0,
     index |-> IF Len(ix) > 0 THEN ix ELSE <<>>]

(* buildGeometry: position always, colour when the lengths agree, index    *)
(* when there is any.                                                      *)
buildGeometry(vs, cs, ix) ==
    [position |-> ToFloat32(vs),
     hasColor |-> Len(cs) = Len(vs),
     color |-> IF Len(cs) = Len(vs) THEN ToFloat32(cs) ELSE <<>>,
     hasIndex |-> Len(ix) > 0,
     index |-> IF Len(ix) > 0 THEN ix ELSE <<>>]

NoGeometry ==
    [position |-> <<>>, hasColor |-> FALSE, color |-> <<>>,
     hasIndex |-> FALSE, index |-> <<>>]

(***************************************************************************)
(* parseBinary: one record of a vertex element, one of a face element.     *)
(***************************************************************************)
(* A cursor that keeps every value on a 4-byte boundary. *)
AdvancePadded(offset, size) == ((offset + size + 3) \div 4) * 4

(* offset += reader.size *)
Advance(offset, size) == offset + size

RECURSIVE BinaryVertexProps(_, _, _, _)
(* for (let p of readers) of the vertex branch, from reader j on.          *)
(* dv = [buf, byteOffset, little]; acc = [err, offset, rec, reads].        *)
BinaryVertexProps(dv, readers, j, acc) ==
    IF j > Len(readers) THEN acc
    ELSE LET p == readers[j]
         IN IF p.isList THEN [acc EXCEPT !.err = "ListOnVertex"]
            ELSE IF ~p.reader.def THEN [acc EXCEPT !.err = "TypeError"]
            ELSE LET got == DataViewRead(dv.buf, dv.byteOffset, p.reader,
                                         acc.offset, dv.little)
                 IN IF ~got.ok THEN [acc EXCEPT !.err = "RangeError"]
                    ELSE BinaryVertexProps(dv, readers, j + 1,
                           [err |-> "none",
                            offset |-> Advance(acc.offset, p.reader.size),
                            rec |-> Assign(acc.rec, p.name, got.v),
                            reads |-> Append(acc.reads,
                                        [at |-> acc.offset,
                                         size |-> p.reader.size,
                                         from |-> got.from])])

RECURSIVE BinaryFaceItems(_, _, _, _, _)
(* for (let k = 0; k < count; k++) vs.push(itemReader.read(offset)).       *)
(* acc = [err, offset, vs, reads].                                         *)
BinaryFaceItems(dv, rd, count, k, acc) ==
    IF ~LessThan(k, count) THEN acc
    ELSE IF ~rd.def THEN [acc EXCEPT !.err = "TypeError"]
    ELSE LET got == DataViewRead(dv.buf, dv.byteOffset, rd, acc.offset,
                                 dv.little)
         IN IF ~got.ok THEN [acc EXCEPT !.err = "RangeError"]
            ELSE BinaryFaceItems(dv, rd, count, k + 1,
                   [err |-> "none",
                    offset |-> Advance(acc.offset, rd.size),
                    vs |-> Append(acc.vs, got.v),
                    reads |-> Append(acc.reads,
                                [at |-> acc.offset, size |-> rd.size,
                                 from |-> got.from])])

(* The face branch: only readers[0] is used, as a list.  readers[0] of an  *)
(* element without properties is undefined, and countReader of a scalar    *)
(* reader is undefined: both end in a TypeError.                           *)
BinaryFace(dv, readers, offset) ==
    LET fail(e) == [err |-> e, offset |-> offset, vs |-> <<>>, reads |-> <<>>]
    IN IF Len(readers) = 0 THEN fail("TypeError")
       ELSE LET p == readers[1]
            IN IF ~p.countReader.def THEN fail("TypeError")
               ELSE LET got == DataViewRead(dv.buf, dv.byteOffset,
                                            p.countReader, offset, dv.little)
                    IN IF ~got.ok THEN fail("RangeError")
                       ELSE BinaryFaceItems(dv, p.itemReader, got.v, 0,
                              [err |-> "none",
                               offset |-> Advance(offset, p.countReader.size),
                               vs |-> <<>>,
                               reads |-> <<[at |-> offset,
                                            size |-> p.countReader.size,
                                            from |-> got.from]>>])

(***************************************************************************)
(* parseASCII: the token reader, one vertex record, one face record.       *)
(***************************************************************************)
(* const text = new TextDecoder().decode(bytes): ASCII bytes decode to     *)
(* themselves, any other byte to U+FFFD (multi-byte sequences are not      *)
(* modelled).                                                              *)
TextDecode(buf) == [i \in 1..Len(buf) |-> IF buf[i] < 128 THEN buf[i] ELSE 65533]

(* text.split("end_header")[1]: the text between the first and the second  *)
(* occurrence of the separator (to the end when there is no second).       *)
SplitSecond(text) ==
    LET first == IndexFrom(text, S_end_header, 1)
        from == first + Len(S_end_header)
        second == IndexFrom(text, S_end_header, from)
    IN SubSeq(text, from, IF second = 0 THEN Len(text) ELSE second - 1)

(* const body = text.split("end_header")[1].trim().split(/\s+/) *)
BodyTokens(buf) == SplitWS(Trim(SplitSecond(TextDecode(buf))))

(* body[idx]: undefined past the end. *)
TokenAt(toks, i) == IF i + 1 <= Len(toks) THEN toks[i + 1] ELSE NoTok

IntTypes ==
    {S_char, S_uchar, S_short, S_ushort, S_int, S_uint,
     S_int8, S_uint8, S_int16, S_uint16, S_int32, S_uint32}

(* read(type) applied to the token next() returned. *)
ReadToken(type, tok) ==
    IF type \in IntTypes THEN ParseInt(tok) ELSE ParseFloat(tok)

RECURSIVE AsciiVertexProps(_, _, _, _)
(* for (let p of elem.properties) of the vertex branch, from property j.   *)
(* acc = [idx, rec].                                                       *)
AsciiVertexProps(toks, props, j, acc) ==
    IF j > Len(props) THEN acc
    ELSE AsciiVertexProps(toks, props, j + 1,
           [idx |-> acc.idx + 1,
            rec |-> Assign(acc.rec, props[j].name,
                           ReadToken(props[j].type, TokenAt(toks, acc.idx)))])

RECURSIVE AsciiFaceItems(_, _, _, _)
(* for (let k = 0; k < len; k++) vs.push(parseInt(next())); acc = [idx, vs]. *)
AsciiFaceItems(toks, len, k, acc) ==
    IF ~LessThan(k, len) THEN acc
    ELSE AsciiFaceItems(toks, len, k + 1,
           [idx |-> acc.idx + 1,
            vs |-> Append(acc.vs, ParseInt(TokenAt(toks, acc.idx)))])

(* const len = parseInt(next()); then the items. *)
AsciiFace(toks, i) ==
    AsciiFaceItems(toks, ParseInt(TokenAt(toks, i)), 0,
                   [idx |-> i + 1, vs |-> <<>>])

(***************************************************************************)
(* The files the decoder is run on: a file is described by its header      *)
(* lines and its element records, and encoded to bytes by the rules of the *)
(* PLY wire format.                                                        *)
(***************************************************************************)
Scalar(type, name) ==
    [type |-> type, countType |-> NoTok, itemType |-> NoTok, name |-> name]

ListProp(countType, itemType, name) ==
    [type |-> S_list, countType |-> countType, itemType |-> itemType,
     name |-> name]

(* A property value of a record: a scalar v, or a list of items. *)
Val(n) == [list |-> FALSE, v |-> Num(n), items |-> <<>>]
Half == [list |-> FALSE, v |-> Rat(1, 2), items |-> <<>>]
ListVal(ns) ==
    [list |-> TRUE, v |-> Num(Len(ns)), items |-> [i \in 1..Len(ns) |-> Num(ns[i])]]

(* Width and family of the eight type families, two spellings each, and   *)
(* of byte, a one-byte spelling of some writers that getReader lacks.      *)
WireType(type) ==
    CASE type \in {S_char, S_int8} -> [size |-> 1, fam |-> "int"]
      [] type \in {S_uchar, S_uint8} -> [size |-> 1, fam |-> "int"]
      [] type \in {S_short, S_int16} -> [size |-> 2, fam |-> "int"]
      [] type \in {S_ushort, S_uint16} -> [size |-> 2, fam |-> "int"]
      [] type \in {S_int, S_int32} -> [size |-> 4, fam |-> "int"]
      [] type \in {S_uint, S_uint32} -> [size |-> 4, fam |-> "int"]
      [] type \in {S_float, S_float32} -> [size |-> 4, fam |-> "float"]
      [] type \in {S_double, S_float64} -> [size |-> 8, fam |-> "float"]
      [] type = S_byte -> [size |-> 1, fam |-> "int"]

(* The IEEE 754 bytes, most significant first, of 0, 0.5, 1, 2 and 255. *)
FloatBytes(v, size) ==
    LET hi == CASE v = Num(0) -> <<0, 0>>
                [] v = Rat(1, 2) -> IF size = 4 THEN <<63, 0>> ELSE <<63, 224>>
                [] v = Num(1) -> IF size = 4 THEN <<63, 128>> ELSE <<63, 240>>
                [] v = Num(2) -> <<64, 0>>
                [] v = Num(255) -> IF size = 4 THEN <<67, 127>> ELSE <<64, 111>>
        third == IF size = 8 /\ v = Num(255) THEN 224 ELSE 0
    IN [i \in 1..size |-> IF i <= 2 THEN hi[i] ELSE IF i = 3 THEN third ELSE 0]

(* The bytes of one scalar of a type, in file order. *)
WireScalar(type, v, little) ==
    LET t == WireType(type)
        be == IF t.fam = "float" THEN FloatBytes(v, t.size)
              ELSE [i \in 1..t.size |-> (v.n \div Pow256(t.size - i)) % 256]
    IN IF little THEN Reverse(be) ELSE be

RECURSIVE WireItems(_, _, _)
WireItems(type, items, little) ==
    IF items = <<>> THEN <<>>
    ELSE WireScalar(type, Head(items), little) \o WireItems(type, Tail(items), little)

(* The bytes of one property value: a scalar, or a count and the items. *)
WireValue(prop, val, little) ==
    IF prop.type = S_list
    THEN WireScalar(prop.countType, val.v, little)
         \o WireItems(prop.itemType, val.items, little)
    ELSE WireScalar(prop.type, val.v, little)

RECURSIVE WireRecord(_, _, _)
(* One record: every property in declared order, nothing between them. *)
WireRecord(props, rec, little) ==
    IF props = <<>> THEN <<>>
    ELSE WireValue(Head(props), Head(rec), little)
         \o WireRecord(Tail(props), Tail(rec), little)

RECURSIVE WireRecords(_, _, _)
WireRecords(props, recs, little) ==
    IF recs = <<>> THEN <<>>
    ELSE WireRecord(props, Head(recs), little)
         \o WireRecords(props, Tail(recs), little)

RECURSIVE WireBody(_, _)
(* The binary body: the elements' records in schema order. *)
WireBody(elems, little) ==
    IF elems = <<>> THEN <<>>
    ELSE WireRecords(Head(elems).props, Head(elems).recs, little)
         \o WireBody(Tail(elems), little)

RECURSIVE ToDigits(_)
ToDigits(n) ==
    IF n < 10 THEN <<48 + n>> ELSE ToDigits(n \div 10) \o <<48 + (n % 10)>>

(* The decimal text of an integer or of a half-integer. *)
ShowNum(v) ==
    (IF v.n < 0 THEN <<45>> ELSE <<>>)
    \o (IF v.d = 1 THEN ToDigits(Abs(v.n))
        ELSE ToDigits(Abs(v.n) \div 2) \o <<46, 53>>)

TextValue(val) ==
    IF val.list
    THEN <<ShowNum(val.v)>> \o [i \in 1..Len(val.items) |-> ShowNum(val.items[i])]
    ELSE <<ShowNum(val.v)>>

RECURSIVE TextRecord(_)
TextRecord(rec) ==
    IF rec = <<>> THEN <<>> ELSE TextValue(Head(rec)) \o TextRecord(Tail(rec))

RECURSIVE TextRecords(_)
TextRecords(recs) ==
    IF recs = <<>> THEN <<>> ELSE TextRecord(Head(recs)) \o TextRecords(Tail(recs))

RECURSIVE TextBody(_)
(* The ASCII body as its flat token sequence. *)
TextBody(elems) ==
    IF elems = <<>> THEN <<>>
    ELSE TextRecords(Head(elems).recs) \o TextBody(Tail(elems))

PropertyLine(p) ==
    IF p.type = S_list
    THEN Join(<<S_property, S_list, p.countType, p.itemType, p.name>>, S_sp)
    ELSE Join(<<S_property, p.type, p.name>>, S_sp)

ElementLines(e) ==
    <<Join(<<S_element, e.name, e.count>>, S_sp)>>
    \o [i \in 1..Len(e.props) |-> PropertyLine(e.props[i])]

RECURSIVE SchemaLines(_)
SchemaLines(elems) ==
    IF elems = <<>> THEN <<>>
    ELSE ElementLines(Head(elems)) \o SchemaLines(Tail(elems))

RECURSIVE EndEach(_, _)
(* Every line followed by the file's line break. *)
EndEach(lines, eol) ==
    IF lines = <<>> THEN <<>> ELSE Head(lines) \o eol \o EndEach(Tail(lines), eol)

(* The header up to, not including, the terminator line. *)
FileHead(f) ==
    EndEach(<<S_ply, Join(<<S_format, f.fmt, S_1_0>>, S_sp)>> \o f.pre
            \o SchemaLines(f.elems), f.eol)

(* The terminator line and what follows it on its line. *)
FileTerminator(f) == f.term \o f.termEol

(* The number of body units (bytes, or tokens) the schema declares. *)
FullBody(f) ==
    IF f.fmt = S_ascii THEN TextBody(f.elems)
    ELSE WireBody(f.elems, f.fmt = S_binary_little_endian)

(* The body: the declared records, cut units short, extra units long. *)
FileBody(f) ==
    LET full == FullBody(f)
        kept == SubSeq(full, 1, Len(full) - f.cut)
    IN IF f.fmt = S_ascii
       THEN LET toks == kept \o [i \in 1..f.extra |-> <<55>>]
            IN IF toks = <<>> THEN <<>> ELSE Join(toks, S_sp) \o f.eol
       ELSE kept \o [i \in 1..f.extra |-> 7]

(* The index of the first body byte. *)
BodyStart(f) == Len(FileHead(f)) + Len(FileTerminator(f))

Encode(f) == FileHead(f) \o FileTerminator(f) \o FileBody(f)

(***************************************************************************)
(* The state of one parse(data) call.                                      *)
(***************************************************************************)
VARIABLES
    file,          \* the description the input was encoded from
    bytes,         \* new Uint8Array(data)
    pc,            \* where the call is
    err,           \* the error thrown, "none" while there is none
    headerText,    \* extractHeader's result
    headerLength,
    header,        \* parseHeader's result: format and elements
    body,          \* parseASCII: the body tokens
    idx,           \* parseASCII: the index of the next token
    offset,        \* parseBinary: the byte cursor
    ei,            \* the element being decoded (1-based), of header.elements
    ri,            \* the loop variable i: records of it decoded so far
    elemStart,     \* the cursor (offset or idx) when element ei was entered
    reads,         \* parseBinary: the reads of the last record: cursor at,
                   \* size, and the input index from of the first byte
    rec,           \* the locals x, y, z, r, g, b of the last vertex record
    vertices, colors, indices,   \* the decoders' accumulators
    geo,           \* the geometry returned
    path,          \* the loader or face handler run
    faceList,      \* the vertex-index list a face handler is given
    prior,         \* the outcome of an earlier call on the same records
    load           \* the load call parse runs in: the caller's callbacks
                   \* and the invocations made of them

vars ==
    <<file, bytes, pc, err, headerText, headerLength, header, body, idx,
      offset, ei, ri, elemStart, reads, rec, vertices, colors, indices,
      geo, path, faceList, prior, load>>

inputVars == <<file, bytes, path, faceList, prior, load>>
headerVars == <<headerText, headerLength, header>>
cursorVars == <<body, idx, offset, ei, ri, elemStart, reads, rec>>
outVars == <<vertices, colors, indices, geo>>

NoHeader == [ok |-> FALSE, format |-> <<>>, elements |-> <<>>]

(* parse called directly, outside a load call. *)
NoLoad ==
    [active |-> FALSE, onError |-> FALSE, onLoadThrows |-> FALSE,
     calls |-> <<>>, logged |-> <<>>, itemErrors |-> <<>>]

(* No earlier call. *)
NoOutcome == [set |-> FALSE, failed |-> FALSE, geo |-> NoGeometry]

Throw(e) == pc' = "error" /\ err' = e

(* parse, line 148: extractHeader either returns or throws. *)
ExtractHeader ==
    /\ pc = "start"
    /\ LET r == extractHeader(bytes)
       IN IF r.ok
          THEN /\ pc' = "extracted"
               /\ headerText' = r.headerText
               /\ headerLength' = r.headerLength
               /\ err' = err
          ELSE /\ Throw("HeaderNotFound")
               /\ UNCHANGED <<headerText, headerLength>>
    /\ UNCHANGED <<inputVars, header, cursorVars, outVars>>

(* parse, line 149. *)
ParseHeader ==
    /\ pc = "extracted"
    /\ LET h == parseHeader(headerText)
       IN IF h.ok
          THEN pc' = "parsed" /\ header' = h /\ err' = err
          ELSE Throw("TypeError") /\ header' = header
    /\ UNCHANGED <<inputVars, headerText, headerLength, cursorVars, outVars>>

(* parse, lines 151-152, and parseASCII up to its element loop. *)
EnterASCII ==
    /\ pc = "parsed"
    /\ header.format = S_ascii
    /\ pc' = "ascii"
    /\ body' = BodyTokens(bytes)
    /\ idx' = 0
    /\ ei' = 1 /\ ri' = 0 /\ elemStart' = 0
    /\ UNCHANGED <<inputVars, headerVars, err, offset, reads, rec, outVars>>

(* parse, lines 153-154, and parseBinary up to its element loop. *)
EnterBinary ==
    /\ pc = "parsed"
    /\ header.format # S_ascii
    /\ pc' = "binary"
    /\ offset' = 0
    /\ ei' = 1 /\ ri' = 0 /\ elemStart' = 0
    /\ UNCHANGED <<inputVars, headerVars, err, body, idx, reads, rec, outVars>>

Elem == header.elements[ei]
InElement == ei <= Len(header.elements)
MoreRecords == InElement /\ LessThan(ri, Elem.count)

(* new DataView(bytes.buffer, header.headerLength) and the endianness. *)
View ==
    [buf |-> bytes, byteOffset |-> headerLength,
     little |-> header.format = S_binary_little_endian]

(* parseBinary, lines 248-269: one record of a vertex element. *)
BinaryVertexRecord ==
    /\ pc = "binary" /\ MoreRecords
    /\ Elem.name = S_vertex
    /\ LET r == BinaryVertexProps(View, MakeReaders(Elem.properties), 1,
                   [err |-> "none", offset |-> offset, rec |-> NoRec,
                    reads |-> <<>>])
       IN IF r.err = "none"
          THEN /\ offset' = r.offset
               /\ reads' = r.reads
               /\ rec' = r.rec
               /\ vertices' = PushVertex(vertices, r.rec)
               /\ colors' = PushColor(colors, r.rec)
               /\ ri' = ri + 1
               /\ UNCHANGED <<pc, err>>
          ELSE /\ Throw(r.err)
               /\ UNCHANGED <<offset, reads, rec, vertices, colors, ri>>
    /\ UNCHANGED <<inputVars, headerVars, body, idx, ei, elemStart, indices, geo>>

(* parseBinary, lines 271-287: one record of a face element. *)
BinaryFaceRecord ==
    /\ pc = "binary" /\ MoreRecords
    /\ Elem.name = S_face
    /\ LET r == BinaryFace(View, MakeReaders(Elem.properties), offset)
       IN IF r.err = "none"
          THEN /\ offset' = r.offset
               /\ reads' = r.reads
               /\ indices' = EmitFaceBinary(indices, r.vs)
               /\ ri' = ri + 1
               /\ UNCHANGED <<pc, err>>
          ELSE /\ Throw(r.err)
               /\ UNCHANGED <<offset, reads, indices, ri>>
    /\ UNCHANGED <<inputVars, headerVars, body, idx, ei, elemStart, rec,
                   vertices, colors, geo>>

(* parseBinary, lines 244-288: one iteration of the record loop for an     *)
(* element that is neither vertex nor face; the body does nothing.         *)
BinaryOtherRecord ==
    /\ pc = "binary" /\ MoreRecords
    /\ Elem.name # S_vertex /\ Elem.name # S_face
    /\ ri' = ri + 1
    /\ reads' = <<>>
    /\ UNCHANGED <<inputVars, headerVars, pc, err, body, idx, offset, ei,
                   elemStart, rec, outVars>>

(* parseBinary, line 224: the element loop moves on. *)
BinaryNextElement ==
    /\ pc = "binary" /\ InElement /\ ~MoreRecords
    /\ ei' = ei + 1 /\ ri' = 0 /\ elemStart' = offset
    /\ UNCHANGED <<inputVars, headerVars, pc, err, body, idx, offset, reads,
                   rec, outVars>>

(* parseBinary, line 291. *)
BinaryReturn ==
    /\ pc = "binary" /\ ~InElement
    /\ geo' = buildGeometry(vertices, colors, indices)
    /\ pc' = "done"
    /\ UNCHANGED <<inputVars, headerVars, err, cursorVars, vertices, colors,
                   indices>>

(* parseASCII, lines 177-195: one record of a vertex element. *)
AsciiVertexRecord ==
    /\ pc = "ascii" /\ MoreRecords
    /\ Elem.name = S_vertex
    /\ LET r == AsciiVertexProps(body, Elem.properties, 1,
                                 [idx |-> idx, rec |-> NoRec])
       IN /\ idx' = r.idx
          /\ rec' = r.rec
          /\ vertices' = PushVertex(vertices, r.rec)
          /\ colors' = PushColor(colors, r.rec)
    /\ ri' = ri + 1
    /\ UNCHANGED <<inputVars, headerVars, pc, err, body, offset, ei,
                   elemStart, reads, indices, geo>>

(* parseASCII, lines 197-208: one record of a face element. *)
AsciiFaceRecord ==
    /\ pc = "ascii" /\ MoreRecords
    /\ Elem.name = S_face
    /\ LET r == AsciiFace(body, idx)
       IN /\ idx' = r.idx
          /\ indices' = EmitFaceASCII(indices, r.vs)
    /\ ri' = ri + 1
    /\ UNCHANGED <<inputVars, headerVars, pc, err, body, offset, ei,
                   elemStart, reads, rec, vertices, colors, geo>>

(* parseASCII, line 176: the element loop moves on, at the end of the      *)
(* records of a vertex or face element, or at once for any other element.  *)
AsciiNextElement ==
    /\ pc = "ascii" /\ InElement
    /\ ~(MoreRecords /\ Elem.name \in {S_vertex, S_face})
    /\ ei' = ei + 1 /\ ri' = 0 /\ elemStart' = idx
    /\ UNCHANGED <<inputVars, headerVars, pc, err, body, idx, offset, reads,
                   rec, outVars>>

(* parseASCII, line 211. *)
AsciiReturn ==
    /\ pc = "ascii" /\ ~InElement
    /\ geo' = buildGeometry(vertices, colors, indices)
    /\ pc' = "done"
    /\ UNCHANGED <<inputVars, headerVars, err, cursorVars, vertices, colors,
                   indices>>

Next ==
    \/ ExtractHeader
    \/ ParseHeader
    \/ EnterASCII
    \/ EnterBinary
    \/ BinaryVertexRecord
    \/ BinaryFaceRecord
    \/ BinaryOtherRecord
    \/ BinaryNextElement
    \/ BinaryReturn
    \/ AsciiVertexRecord
    \/ AsciiFaceRecord
    \/ AsciiNextElement
    \/ AsciiReturn

(* A buffer that was not encoded from a description. *)
NoFile ==
    [fmt |-> <<>>, eol |-> <<>>, pre |-> <<>>, term |-> <<>>,
     termEol |-> <<>>, elems |-> <<>>, cut |-> 0, extra |-> 0]

(* The state of a parse call about to start on buffer b, encoded from f. *)
StartOn(f, b) ==
    /\ file = f
    /\ bytes = b
    /\ pc = "start"
    /\ err = "none"
    /\ headerText = <<>>
    /\ headerLength = 0
    /\ header = NoHeader
    /\ body = <<>>
    /\ idx = 0
    /\ offset = 0
    /\ ei = 0 /\ ri = 0 /\ elemStart = 0
    /\ reads = <<>>
    /\ rec = NoRec
    /\ vertices = <<>> /\ colors = <<>> /\ indices = <<>>
    /\ geo = NoGeometry
    /\ path = "parse"
    /\ faceList = <<>>
    /\ prior = NoOutcome
    /\ load = NoLoad

(***************************************************************************)
(* The inputs explored.                                                    *)
(***************************************************************************)
MaxCount == 2    \* records per element
MaxCut == 1      \* body units (bytes or tokens) missing at the end
MaxExtra == 1    \* body units following the last declared record

SeqsUpTo(S, n) == UNION {[1..k -> S] : k \in 0..n}

Vals(ns) == [i \in 1..Len(ns) |-> Val(ns[i])]

ElemOf(name, props, recs) ==
    [name |-> name, count |-> ToDigits(Len(recs)), props |-> props,
     recs |-> recs]

XYZ(t) == <<Scalar(t, S_x), Scalar(t, S_y), Scalar(t, S_z)>>
RGB(t) == <<Scalar(t, S_red), Scalar(t, S_green), Scalar(t, S_blue)>>
Indices == ListProp(S_uchar, S_uchar, S_vertex_indices)
Flag == Scalar(S_uchar, S_flag)

FaceLists ==
    {<<0, 1, 2>>, <<0, 1, 2, 3>>, <<2>>, <<3, 1>>, <<0, 1, 2, 3, 1>>, <<>>}

(* vertex (uchar x y z), then face (list uchar uchar vertex_indices). *)
MeshElems ==
    {<<ElemOf(S_vertex, XYZ(S_uchar), vs), ElemOf(S_face, <<Indices>>, fs)>> :
        vs \in SeqsUpTo({Vals(<<0, 0, 0>>), Vals(<<1, 2, 3>>)}, MaxCount),
        fs \in SeqsUpTo({<<ListVal(l)>> : l \in FaceLists}, 1)}

(* vertex (float x y z, uchar red green blue): records of 15 bytes. *)
ColouredElems ==
    {<<ElemOf(S_vertex, XYZ(S_float) \o RGB(S_uchar), vs)>> :
        vs \in SeqsUpTo({<<Half, Val(1), Val(2), Val(255), Val(0), Val(1)>>,
                         Vals(<<0, 0, 1, 1, 255, 0>>)}, MaxCount)}

(* vertex records of other widths: 11 and 7 bytes. *)
WidthElems ==
    {<<ElemOf(S_vertex, <<Scalar(S_double, S_x), Scalar(S_short, S_y),
                           Scalar(S_uint8, S_z)>>, vs)>> :
        vs \in SeqsUpTo({Vals(<<1, 2, 3>>), Vals(<<255, 1, 0>>)}, MaxCount)}
    \cup
    {<<ElemOf(S_vertex, <<Scalar(S_int, S_x), Scalar(S_uint16, S_y),
                           Scalar(S_char, S_z)>>, vs)>> :
        vs \in SeqsUpTo({Vals(<<1, 2, 3>>), Vals(<<3, 0, 1>>)}, MaxCount)}

(* An element that is neither vertex nor face, before and between them. *)
UnknownElems ==
    {<<ElemOf(S_edge, <<Scalar(S_ushort, S_a)>>, es),
       ElemOf(S_vertex, XYZ(S_uchar), <<Vals(<<1, 2, 3>>)>>)>> :
        es \in SeqsUpTo({Vals(<<4>>), Vals(<<5>>)}, MaxCount)}
    \cup
    {<<ElemOf(S_vertex, XYZ(S_uchar), <<Vals(<<1, 2, 3>>), Vals(<<0, 1, 0>>),
                                        Vals(<<0, 0, 1>>)>>),
       ElemOf(S_edge, <<ListProp(S_uchar, S_uchar, S_a)>>, es),
       ElemOf(S_face, <<Indices>>, <<<<ListVal(<<0, 1, 2>>)>>>>)>> :
        es \in SeqsUpTo({<<ListVal(<<1>>)>>, <<ListVal(<<2, 0>>)>>}, MaxCount)}

(* A face element with a property besides the index list. *)
FlaggedElems ==
    {<<ElemOf(S_vertex, XYZ(S_uchar), <<Vals(<<1, 2, 3>>)>>),
       ElemOf(S_face, <<Flag, Indices>>, fs)>> :
        fs \in SeqsUpTo({<<Val(3), ListVal(<<0, 1, 2>>)>>,
                         <<Val(4), ListVal(<<0, 1, 2, 3>>)>>}, MaxCount)}
    \cup
    {<<ElemOf(S_vertex, XYZ(S_uchar), <<Vals(<<1, 2, 3>>)>>),
       ElemOf(S_face, <<Indices, Flag>>, fs)>> :
        fs \in SeqsUpTo({<<ListVal(<<0, 1, 2>>), Val(3)>>,
                         <<ListVal(<<0, 1, 2, 3>>), Val(4)>>}, MaxCount)}

(* One vertex with each colour component 0, 0.5, 1 or 255. *)
ColourValues == {Val(0), Half, Val(1), Val(255)}

PaletteElems ==
    {<<ElemOf(S_vertex, XYZ(S_float) \o RGB(S_float),
              <<Vals(<<0, 1, 2>>) \o <<r, g, b>>>>)>> :
        r \in ColourValues, g \in ColourValues, b \in ColourValues}

(* Two vertex elements, the second with records of 9 bytes. *)
TwoVertexElems ==
    {<<ElemOf(S_vertex, XYZ(S_uchar), vs),
       ElemOf(S_vertex, XYZ(S_short) \o RGB(S_uchar), ws)>> :
        vs \in SeqsUpTo({Vals(<<1, 2, 3>>)}, MaxCount),
        ws \in SeqsUpTo({Vals(<<1, 0, 2, 255, 1, 0>>),
                         Vals(<<0, 1, 0, 0, 0, 255>>)}, MaxCount)}

(* A vertex element that declares only some colour components, or only    *)
(* some position components.                                               *)
PartialElems ==
    {<<ElemOf(S_vertex, ps, [i \in 1..n |-> Vals([j \in 1..Len(ps) |-> j])])>> :
        ps \in {XYZ(S_uchar) \o <<Scalar(S_uchar, S_red)>>,
                XYZ(S_uchar) \o <<Scalar(S_uchar, S_red),
                                  Scalar(S_uchar, S_green)>>,
                XYZ(S_uchar) \o <<Scalar(S_uchar, S_green),
                                  Scalar(S_uchar, S_blue)>>,
                <<Scalar(S_uchar, S_x), Scalar(S_uchar, S_y)>>,
                <<Scalar(S_uchar, S_y), Scalar(S_uchar, S_z)>>,
                RGB(S_uchar)},
        n \in 0..MaxCount}

(* A property whose scalar, count or item type is the spelling byte. *)
UnknownTypeElems ==
    {<<ElemOf(S_vertex, <<Scalar(S_uchar, S_x), Scalar(S_byte, S_y),
                           Scalar(S_uchar, S_z)>>, vs),
       ElemOf(S_face, <<ListProp(ct, it, S_vertex_indices)>>, fs)>> :
        vs \in SeqsUpTo({Vals(<<1, 2, 3>>)}, 1),
        ct \in {S_uchar, S_byte}, it \in {S_uchar, S_byte},
        fs \in SeqsUpTo({<<ListVal(<<0, 0, 0>>)>>}, 1)}
    \cup
    {<<ElemOf(S_vertex, XYZ(S_uchar), <<Vals(<<1, 2, 3>>)>>),
       ElemOf(S_face, <<ListProp(ct, it, S_vertex_indices)>>, fs)>> :
        ct \in {S_uchar, S_byte}, it \in {S_uchar, S_byte},
        fs \in SeqsUpTo({<<ListVal(<<0, 0, 0>>)>>, <<ListVal(<<>>)>>}, 1)}

(* The count tokens of an element line that are no count: none, a word, a  *)
(* negative number, a number followed by a letter.                         *)
BadCounts == {<<>>, <<120>>, <<45, 49>>, <<50, 120>>}

CountElems ==
    {<<[name |-> S_vertex, count |-> c, props |-> XYZ(S_uchar), recs |-> vs]>> :
        c \in BadCounts,
        vs \in SeqsUpTo({Vals(<<1, 2, 3>>)}, MaxCount)}

DecodeElems ==
    MeshElems \cup ColouredElems \cup WidthElems \cup UnknownElems
    \cup FlaggedElems \cup PaletteElems \cup TwoVertexElems
    \cup PartialElems \cup UnknownTypeElems \cup CountElems

Formats == {S_ascii, S_binary_little_endian, S_binary_big_endian}

(* Well-formed headers, bodies complete, short or long. *)
DecodeFiles ==
    {[fmt |-> fmt, eol |-> <<LF>>, pre |-> <<>>, term |-> S_end_header,
      termEol |-> <<LF>>, elems |-> es, cut |-> cut, extra |-> extra] :
        fmt \in Formats, es \in DecodeElems,
        cut \in 0..MaxCut, extra \in 0..MaxExtra}

(* Header layouts: line breaks, the terminator line and what follows it. *)
HeaderFiles ==
    {[fmt |-> fmt, eol |-> eol, pre |-> pre, term |-> term,
      termEol |-> IF te = "eol" THEN eol ELSE IF te = "none" THEN <<>>
                  ELSE S_sp \o eol,
      elems |-> <<ElemOf(S_vertex, XYZ(S_uchar), vs)>>,
      cut |-> 0, extra |-> 0] :
        fmt \in {S_ascii, S_binary_little_endian},
        eol \in {<<LF>>, <<CR, LF>>},
        pre \in {<<>>, <<Join(<<S_comment, S_a>>, S_sp)>>,
                 <<Join(<<S_comment, S_end_header>>, S_sp)>>},
        term \in {S_end_header, SubSeq(S_end_header, 1, 9), <<>>},
        te \in {"eol", "none", "space"},
        vs \in SeqsUpTo({Vals(<<1, 2, 3>>), Vals(<<10, 13, 3>>)}, 1)}

Files == {f \in DecodeFiles \cup HeaderFiles : f.cut <= Len(FullBody(f))}

(* Buffers with no header, part of one, or nothing but the terminator. *)
RawBuffers ==
    {<<>>, <<LF>>, <<0, 255, CR>>,
     S_ply \o <<LF>>,
     SubSeq(S_end_header, 1, 9) \o <<LF>>,
     S_ply \o <<LF>> \o SubSeq(S_end_header, 2, 10) \o <<LF, 1, 2, 3>>,
     S_end_header,
     S_end_header \o <<LF>>,
     S_ply \o <<LF>> \o S_end_header}

(* The ASCII example: three coloured vertices and one triangle, one record *)
(* on each body line.                                                      *)
ExampleFile ==
    [fmt |-> S_ascii, eol |-> <<LF>>, pre |-> <<>>, term |-> S_end_header,
     termEol |-> <<LF>>,
     elems |-> <<ElemOf(S_vertex, XYZ(S_float) \o RGB(S_uchar),
                        <<Vals(<<0, 0, 0, 255, 0, 0>>),
                          Vals(<<1, 0, 0, 0, 255, 0>>),
                          Vals(<<0, 1, 0, 0, 0, 255>>)>>),
                 ElemOf(S_face, <<ListProp(S_uchar, S_int, S_vertex_indices)>>,
                        <<<<ListVal(<<0, 1, 2>>)>>>>)>>,
     cut |-> 0, extra |-> 0]

RECURSIVE RecordLines(_)
(* Each record's tokens joined by spaces: one text line a record. *)
RecordLines(recs) ==
    IF recs = <<>> THEN <<>>
    ELSE <<Join(TextRecord(Head(recs)), S_sp)>> \o RecordLines(Tail(recs))

ExampleBytes ==
    FileHead(ExampleFile) \o FileTerminator(ExampleFile)
    \o EndEach(RecordLines(ExampleFile.elems[1].recs)
               \o RecordLines(ExampleFile.elems[2].recs), <<LF>>)

Init ==
    \/ \E f \in Files : StartOn(f, Encode(f))
    \/ \E b \in RawBuffers : StartOn(NoFile, b)
    \/ StartOn(ExampleFile, ExampleBytes)

Spec == Init /\ [][Next]_vars

(***************************************************************************)
(* The face handlers of the three loaders, each run on one vertex-index    *)
(* list.                                                                   *)
(***************************************************************************)
MaxFaceLen == 4    \* items of a vertex-index list
MaxIndex == 3      \* the largest vertex index in a list

FacePaths == {"parseASCII", "parseBinary", "part_000", "part_001"}

InitFace ==
    \E p \in FacePaths,
       l \in SeqsUpTo({Num(i) : i \in 0..MaxIndex}, MaxFaceLen) :
        /\ path = p
        /\ faceList = l
        /\ pc = "face"
        /\ file = NoFile /\ bytes = <<>> /\ err = "none"
        /\ headerText = <<>> /\ headerLength = 0 /\ header = NoHeader
        /\ body = <<>> /\ idx = 0 /\ offset = 0
        /\ ei = 0 /\ ri = 0 /\ elemStart = 0
        /\ reads = <<>> /\ rec = NoRec
        /\ vertices = <<>> /\ colors = <<>> /\ indices = <<>>
        /\ geo = NoGeometry
        /\ prior = NoOutcome
        /\ load = NoLoad

FaceDone ==
    /\ pc' = "faced"
    /\ UNCHANGED <<inputVars, headerVars, err, cursorVars, vertices, colors,
                   geo>>

(* src/PLYLoader.js, parseASCII, lines 202-206. *)
FaceParseASCII ==
    /\ pc = "face" /\ path = "parseASCII"
    /\ indices' = EmitFaceASCII(indices, faceList)
    /\ FaceDone

(* src/PLYLoader.js, parseBinary, lines 282-286. *)
FaceParseBinary ==
    /\ pc = "face" /\ path = "parseBinary"
    /\ indices' = EmitFaceBinary(indices, faceList)
    /\ FaceDone

(* src/unnamed/part_000, handleElement, lines 193-201. *)
FaceHandle000 ==
    /\ pc = "face" /\ path = "part_000"
    /\ indices' = HandleFace000(indices, faceList)
    /\ FaceDone

(* src/unnamed/part_001, handleElement, lines 508-517. *)
FaceHandle001 ==
    /\ pc = "face" /\ path = "part_001"
    /\ indices' = HandleFace001(indices, faceList)
    /\ FaceDone

NextFace ==
    \/ FaceParseASCII
    \/ FaceParseBinary
    \/ FaceHandle000
    \/ FaceHandle001

SpecFace == InitFace /\ [][NextFace]_vars

(***************************************************************************)
(* The binary decoders of the three loaders, each run on a binary file:    *)
(* parse of src/PLYLoader.js as above, and parse of src/unnamed/part_000   *)
(* and of the first loader of src/unnamed/part_001 from their header       *)
(* extraction to the geometry they return.  The property name mappings are *)
(* the empty ones the constructors set; normals and texture coordinates,   *)
(* which no input declares, are left out.                                  *)
(***************************************************************************)
RECURSIVE ExtractTextLoop(_, _, _)
(* The while loop of extractHeaderText from the start of a line: a line is *)
(* kept when it is not empty, compared untrimmed with end_header, and the  *)
(* loop ends after the line break of that line or at the end of the input. *)
ExtractTextLoop(buf, i, lines) ==
    LET brk == FirstIn(buf, i + 1, {LF, CR})
    IN IF brk = 0 THEN [lines |-> lines, headerLength |-> Len(buf)]
       ELSE LET line == SubSeq(buf, i + 1, brk - 1)
                pushed == IF line # <<>> THEN Append(lines, line) ELSE lines
            IN IF line = S_end_header
               THEN [lines |-> pushed, headerLength |-> brk]
               ELSE ExtractTextLoop(buf, brk, pushed)

(* src/unnamed/part_000: lines.join("\n") *)
extractHeaderText000(buf) ==
    LET r == ExtractTextLoop(buf, 0, <<>>)
    IN [headerText |-> Join(r.lines, <<LF>>), headerLength |-> r.headerLength]

(* src/unnamed/part_001: lines.join('\n') + '\n' *)
extractHeaderText001(buf) ==
    LET r == ExtractTextLoop(buf, 0, <<>>)
    IN [headerText |-> Join(r.lines, <<LF>>) \o <<LF>>,
        headerLength |-> r.headerLength]

(* const e = {}: the scalars of the names the handlers look up, and the    *)
(* list stored under vertex_indices.                                       *)
NoObj == [rec |-> NoRec, hasList |-> FALSE, list |-> <<>>]

(* e[name] = v for a scalar, e[name] = arr for a list. *)
AssignObj(e, name, isList, v, arr) ==
    IF isList
    THEN IF name = S_vertex_indices
         THEN [e EXCEPT !.hasList = TRUE, !.list = arr] ELSE e
    ELSE [e EXCEPT !.rec = Assign(e.rec, name, v)]

RECURSIVE PartItems(_, _, _, _, _, _)
(* for (let k = 0; k < count; k++) arr.push(itemReader.read(base + offset)) *)
(* acc = [err, offset, arr, reads].                                        *)
PartItems(dv, base, rd, count, k, acc) ==
    IF ~LessThan(k, count) THEN acc
    ELSE IF ~rd.def THEN [acc EXCEPT !.err = "TypeError"]
    ELSE LET got == DataViewRead(dv.buf, dv.byteOffset, rd, base + acc.offset,
                                 dv.little)
         IN IF ~got.ok THEN [acc EXCEPT !.err = "RangeError"]
            ELSE PartItems(dv, base, rd, count, k + 1,
                   [err |-> "none",
                    offset |-> acc.offset + rd.size,
                    arr |-> Append(acc.arr, got.v),
                    reads |-> Append(acc.reads,
                                [at |-> acc.offset, size |-> rd.size,
                                 from |-> got.from])])

RECURSIVE PartProps(_, _, _, _, _)
(* for (const p of readers) of one record, from reader j on: a list is its *)
(* count and its items, a scalar one read; each read is made at            *)
(* base + offset.  acc = [err, offset, e, reads].                          *)
PartProps(dv, base, readers, j, acc) ==
    IF j > Len(readers) THEN acc
    ELSE LET p == readers[j]
             first == IF p.isList THEN p.countReader ELSE p.reader
         IN IF ~first.def THEN [acc EXCEPT !.err = "TypeError"]
            ELSE LET got == DataViewRead(dv.buf, dv.byteOffset, first,
                                         base + acc.offset, dv.little)
                     read == [at |-> acc.offset, size |-> first.size,
                              from |-> got.from]
                 IN IF ~got.ok THEN [acc EXCEPT !.err = "RangeError"]
                    ELSE IF ~p.isList
                    THEN PartProps(dv, base, readers, j + 1,
                           [err |-> "none",
                            offset |-> acc.offset + first.size,
                            e |-> AssignObj(acc.e, p.name, FALSE, got.v, <<>>),
                            reads |-> Append(acc.reads, read)])
                    ELSE LET it == PartItems(dv, base, p.itemReader, got.v, 0,
                                     [err |-> "none",
                                      offset |-> acc.offset + first.size,
                                      arr |-> <<>>,
                                      reads |-> Append(acc.reads, read)])
                         IN IF it.err # "none"
                            THEN [acc EXCEPT !.err = it.err]
                            ELSE PartProps(dv, base, readers, j + 1,
                                   [err |-> "none",
                                    offset |-> it.offset,
                                    e |-> AssignObj(acc.e, p.name, TRUE,
                                                    Undef, it.arr),
                                    reads |-> it.reads])

(* if (map.r && map.g && map.b): red, green and blue are all declared. *)
MapsColor(props) ==
    {S_red, S_green, S_blue} \subseteq {props[j].name : j \in 1..Len(props)}

(* handleElement, vertex branch: the colours pushed. *)
PartColor(cs, props, r) ==
    IF MapsColor(props)
    THEN cs \o <<normalizeColor(r.r), normalizeColor(r.g),
                 normalizeColor(r.b)>>
    ELSE cs

(* buildGeometry of part_000 and post of part_001: the colour attribute is *)
(* set when any colour was pushed.                                         *)
PartGeometry(vs, cs, ix) ==
    [position |-> ToFloat32(vs),
     hasColor |-> Len(cs) > 0,
     color |-> IF Len(cs) > 0 THEN ToFloat32(cs) ELSE <<>>,
     hasIndex |-> Len(ix) > 0,
     index |-> IF Len(ix) > 0 THEN ix ELSE <<>>]

(* parse of a part loader up to the element loop of parseBinary; the       *)
(* inputs are binary, so the ASCII branch is not taken.                    *)
PartEnter(x, h, to) ==
    /\ headerText' = x.headerText
    /\ headerLength' = x.headerLength
    /\ IF h.ok
       THEN /\ header' = h
            /\ pc' = IF h.format = S_ascii THEN "asciiPart" ELSE to
            /\ err' = err
       ELSE Throw("TypeError") /\ header' = header
    /\ offset' = 0
    /\ ei' = 1 /\ ri' = 0 /\ elemStart' = 0
    /\ UNCHANGED <<inputVars, body, idx, reads, rec, outVars>>

(* src/unnamed/part_000, parse, lines 339-347, and parseBinary 274-281. *)
Part000Enter ==
    /\ pc = "start000"
    /\ PartEnter(extractHeaderText000(bytes),
                 parseHeader(extractHeaderText000(bytes).headerText),
                 "binary000")

(* src/unnamed/part_000, parseBinary, lines 306-327: one record of any     *)
(* element and handleElement on it.                                        *)
Part000Record ==
    /\ pc = "binary000" /\ MoreRecords
    /\ LET r == PartProps(View, 0, MakeReaders(Elem.properties), 1,
                   [err |-> "none", offset |-> offset, e |-> NoObj,
                    reads |-> <<>>])
           noList == Elem.name = S_face /\ ~r.e.hasList
       IN IF r.err = "none" /\ ~noList
          THEN /\ offset' = r.offset
               /\ reads' = r.reads
               /\ rec' = r.e.rec
               /\ vertices' = IF Elem.name = S_vertex
                              THEN PushVertex(vertices, r.e.rec) ELSE vertices
               /\ colors' = IF Elem.name = S_vertex
                            THEN PartColor(colors, Elem.properties, r.e.rec)
                            ELSE colors
               /\ indices' = IF Elem.name = S_face
                             THEN HandleFace000(indices, r.e.list) ELSE indices
               /\ ri' = ri + 1
               /\ UNCHANGED <<pc, err>>
          ELSE /\ Throw(IF r.err # "none" THEN r.err ELSE "TypeError")
               /\ UNCHANGED <<offset, reads, rec, vertices, colors, indices, ri>>
    /\ UNCHANGED <<inputVars, headerVars, body, idx, ei, elemStart, geo>>

(* src/unnamed/part_000, parseBinary, line 283: the element loop moves on. *)
Part000NextElement ==
    /\ pc = "binary000" /\ InElement /\ ~MoreRecords
    /\ ei' = ei + 1 /\ ri' = 0 /\ elemStart' = offset
    /\ UNCHANGED <<inputVars, headerVars, pc, err, body, idx, offset, reads,
                   rec, outVars>>

(* src/unnamed/part_000, parseBinary, line 330. *)
Part000Return ==
    /\ pc = "binary000" /\ ~InElement
    /\ geo' = PartGeometry(vertices, colors, indices)
    /\ pc' = "done"
    /\ UNCHANGED <<inputVars, headerVars, err, cursorVars, vertices, colors,
                   indices>>

(* src/unnamed/part_001, parse, lines 341-349, and parseBinary 279-286. *)
Part001Enter ==
    /\ pc = "start001"
    /\ PartEnter(extractHeaderText001(bytes),
                 parseHeader(extractHeaderText001(bytes).headerText),
                 "binary001")

(* src/unnamed/part_001, parseBinary, lines 308-329: one record of any     *)
(* element, each read made at header.headerLength + offset of the view,    *)
(* and handleElement on it, which has a vertex branch only.                *)
Part001Record ==
    /\ pc = "binary001" /\ MoreRecords
    /\ LET r == PartProps(View, headerLength, MakeReaders(Elem.properties), 1,
                   [err |-> "none", offset |-> offset, e |-> NoObj,
                    reads |-> <<>>])
       IN IF r.err = "none"
          THEN /\ offset' = r.offset
               /\ reads' = r.reads
               /\ rec' = r.e.rec
               /\ vertices' = IF Elem.name = S_vertex
                              THEN PushVertex(vertices, r.e.rec) ELSE vertices
               /\ colors' = IF Elem.name = S_vertex
                            THEN PartColor(colors, Elem.properties, r.e.rec)
                            ELSE colors
               /\ ri' = ri + 1
               /\ UNCHANGED <<pc, err>>
          ELSE /\ Throw(r.err)
               /\ UNCHANGED <<offset, reads, rec, vertices, colors, ri>>
    /\ UNCHANGED <<inputVars, headerVars, body, idx, ei, elemStart, indices, geo>>

(* src/unnamed/part_001, parseBinary, line 288: the element loop moves on. *)
Part001NextElement ==
    /\ pc = "binary001" /\ InElement /\ ~MoreRecords
    /\ ei' = ei + 1 /\ ri' = 0 /\ elemStart' = offset
    /\ UNCHANGED <<inputVars, headerVars, pc, err, body, idx, offset, reads,
                   rec, outVars>>

(* src/unnamed/part_001, parseBinary, line 332. *)
Part001Return ==
    /\ pc = "binary001" /\ ~InElement
    /\ geo' = PartGeometry(vertices, colors, indices)
    /\ pc' = "done"
    /\ UNCHANGED <<inputVars, headerVars, err, cursorVars, vertices, colors,
                   indices>>

(* A binary file whose body is longer than its header: seven vertices of   *)
(* three doubles.                                                          *)
LongFile ==
    [fmt |-> S_binary_little_endian, eol |-> <<LF>>, pre |-> <<>>,
     term |-> S_end_header, termEol |-> <<LF>>,
     elems |-> <<ElemOf(S_vertex, XYZ(S_double),
                        [i \in 1..7 |-> Vals(<<1, 2, 0>>)])>>,
     cut |-> 0, extra |-> 0]

(* Binary files with well-formed LF headers. *)
BinaryFiles ==
    {f \in DecodeFiles :
        /\ f.fmt # S_ascii
        /\ f.elems \in MeshElems \cup UnknownElems \cup ColouredElems
                       \cup FlaggedElems
        /\ f.cut <= Len(FullBody(f))}
    \cup {LongFile}

(* A parse call about to start in the loader `loader`. *)
InitBinary ==
    \E f \in BinaryFiles, loader \in {"PLYLoader", "part_000", "part_001"} :
        /\ file = f
        /\ bytes = Encode(f)
        /\ pc = CASE loader = "PLYLoader" -> "start"
                  [] loader = "part_000" -> "start000"
                  [] loader = "part_001" -> "start001"
        /\ path = loader
        /\ err = "none"
        /\ headerText = <<>> /\ headerLength = 0 /\ header = NoHeader
        /\ body = <<>> /\ idx = 0 /\ offset = 0
        /\ ei = 0 /\ ri = 0 /\ elemStart = 0
        /\ reads = <<>> /\ rec = NoRec
        /\ vertices = <<>> /\ colors = <<>> /\ indices = <<>>
        /\ geo = NoGeometry
        /\ faceList = <<>>
        /\ prior = NoOutcome
        /\ load = NoLoad

NextBinary ==
    \/ ExtractHeader
    \/ ParseHeader
    \/ EnterBinary
    \/ BinaryVertexRecord
    \/ BinaryFaceRecord
    \/ BinaryOtherRecord
    \/ BinaryNextElement
    \/ BinaryReturn
    \/ Part000Enter
    \/ Part000Record
    \/ Part000NextElement
    \/ Part000Return
    \/ Part001Enter
    \/ Part001Record
    \/ Part001NextElement
    \/ Part001Return

SpecBinary == InitBinary /\ [][NextBinary]_vars
(***************************************************************************)
(* parse called on the ASCII encoding of a file and then on the binary     *)
(* encoding of the same schema and records.                                *)
(***************************************************************************)
(* A vertex element that declares a list property. *)
ListVertexElems ==
    {<<ElemOf(S_vertex,
              XYZ(S_uchar) \o <<ListProp(S_uchar, S_uchar, S_a)>>, vs)>> :
        vs \in SeqsUpTo({Vals(<<1, 2, 3>>) \o <<ListVal(<<5>>)>>,
                         Vals(<<0, 1, 0>>) \o <<ListVal(<<>>)>>}, MaxCount)}

(* Complete ASCII files of integer-valued records. *)
PairFiles ==
    {[fmt |-> S_ascii, eol |-> <<LF>>, pre |-> <<>>, term |-> S_end_header,
      termEol |-> <<LF>>, elems |-> es, cut |-> 0, extra |-> 0] :
        es \in MeshElems \cup UnknownElems \cup FlaggedElems
               \cup TwoVertexElems \cup ListVertexElems}

InitBoth == \E f \in PairFiles : StartOn(f, Encode(f))

(* The first call has ended: its outcome is kept and parse is called on    *)
(* the little-endian binary encoding of the same file.                     *)
ParseBinaryNext ==
    /\ pc \in {"done", "error"}
    /\ ~prior.set
    /\ prior' = [set |-> TRUE, failed |-> pc = "error", geo |-> geo]
    /\ file' = [file EXCEPT !.fmt = S_binary_little_endian]
    /\ bytes' = Encode(file')
    /\ pc' = "start"
    /\ err' = "none"
    /\ headerText' = <<>> /\ headerLength' = 0 /\ header' = NoHeader
    /\ body' = <<>> /\ idx' = 0 /\ offset' = 0
    /\ ei' = 0 /\ ri' = 0 /\ elemStart' = 0
    /\ reads' = <<>> /\ rec' = NoRec
    /\ vertices' = <<>> /\ colors' = <<>> /\ indices' = <<>>
    /\ geo' = NoGeometry
    /\ UNCHANGED <<path, faceList, load>>

NextBoth ==
    \/ ExtractHeader
    \/ ParseHeader
    \/ EnterASCII
    \/ EnterBinary
    \/ BinaryVertexRecord
    \/ BinaryFaceRecord
    \/ BinaryOtherRecord
    \/ BinaryNextElement
    \/ BinaryReturn
    \/ AsciiVertexRecord
    \/ AsciiFaceRecord
    \/ AsciiNextElement
    \/ AsciiReturn
    \/ ParseBinaryNext

SpecBoth == InitBoth /\ [][NextBoth]_vars

(***************************************************************************)
(* What the file says, for comparison with what the decoders do.           *)
(***************************************************************************)
Unknown(name) == name # S_vertex /\ name # S_face

KnownTypes ==
    {S_char, S_uchar, S_short, S_ushort, S_int, S_uint, S_float, S_double,
     S_int8, S_uint8, S_int16, S_uint16, S_int32, S_uint32, S_float32,
     S_float64}

(* The body units (bytes, or tokens) of the records of element k of f. *)
DeclaredUnits(f, k) ==
    IF f.fmt = S_ascii THEN Len(TextRecords(f.elems[k].recs))
    ELSE Len(WireRecords(f.elems[k].props, f.elems[k].recs,
                         f.fmt = S_binary_little_endian))

(* The bytes of record r of element k of f. *)
RecordBytes(f, k, r) ==
    WireRecord(f.elems[k].props, f.elems[k].recs[r],
               f.fmt = S_binary_little_endian)

RECURSIVE ElementStart(_, _)
(* Where the records of element k of f start in the body. *)
ElementStart(f, k) ==
    IF k = 1 THEN 0 ELSE ElementStart(f, k - 1) + DeclaredUnits(f, k - 1)

RECURSIVE RecordStart(_, _, _)
(* Where record r of element k of f starts in the binary body. *)
RecordStart(f, k, r) ==
    IF r = 1 THEN ElementStart(f, k)
    ELSE RecordStart(f, k, r - 1) + Len(RecordBytes(f, k, r - 1))

(* An element all of whose properties are scalars of known types. *)
ScalarVertex(e) ==
    /\ e.name = S_vertex
    /\ \A j \in 1..Len(e.properties) : e.properties[j].type \in KnownTypes

Width(p) == WireType(p.type).size

RECURSIVE WidthBefore(_, _)
(* w_1 + ... + w_(j-1) *)
WidthBefore(props, j) ==
    IF j = 1 THEN 0 ELSE WidthBefore(props, j - 1) + Width(props[j - 1])

(* S = w_1 + ... + w_m *)
Stride(props) == WidthBefore(props, Len(props) + 1)

(* The colour triple the last vertex record appended. *)
LastColor == SubSeq(colors, Len(colors) - 2, Len(colors))

(* The tokens of a body; the body text "" splits into one empty piece. *)
TokenCount(toks) == IF toks = <<NoTok>> THEN 0 ELSE Len(toks)

(***************************************************************************)
(* The claims.                                                             *)
(***************************************************************************)

(* C1: when a decoder leaves an element that is neither vertex nor face of *)
(* a complete body whose first byte is at headerLength,                    *)
(* in binary or ASCII mode, the cursor (byte offset or token index) has    *)
(* advanced over the element by the total size of its declared records,    *)
(* so the next element is entered where its data starts, and no error is   *)
(* raised.  Stated of the step that leaves the element; the code violates  *)
(* it: the cursor does not move.                                           *)
C1_UnknownElementConsumed ==
    [][(/\ pc \in {"ascii", "binary"}
        /\ file # NoFile /\ file.cut = 0
        /\ headerLength = BodyStart(file)
        /\ ei \in 1..Len(file.elems)
        /\ Unknown(file.elems[ei].name)
        /\ ei' = ei + 1)
       => (/\ pc' # "error"
           /\ elemStart' = elemStart + DeclaredUnits(file, ei))]_vars

(* C2: in binary mode, decoding one record of any element, started where   *)
(* the record starts in a complete body whose first byte is at             *)
(* headerLength, decodes every declared property:                          *)
(* it raises no error and advances the cursor by the size of the record,   *)
(* the sum of its scalars' widths and its lists' count width plus items.   *)
(* The code violates it for a face element with a property besides its     *)
(* first, and for an element that is neither vertex nor face.              *)
C2_EveryPropertyDecoded ==
    [][(/\ pc = "binary"
        /\ file # NoFile /\ file.cut = 0
        /\ headerLength = BodyStart(file)
        /\ ei \in 1..Len(file.elems)
        /\ ri < Len(file.elems[ei].recs)
        /\ offset = RecordStart(file, ei, ri + 1))
       => (/\ pc' = "binary"
           /\ ri' = ri + 1
           /\ offset' = offset + Len(RecordBytes(file, ei, ri + 1)))]_vars

(* C3: in binary mode, after ri >= 1 records of a vertex element of scalar *)
(* properties entered at cursor c0 = elemStart, the cursor is c0 + ri * S,  *)
(* and property j of the last record (record ri - 1) was read at           *)
(* c0 + (ri - 1) * S + (w_1 + ... + w_(j-1)) with its width w_j: the        *)
(* records are packed, with no padding between or within them.             *)
C3_VertexRecordsPacked ==
    (pc = "binary" /\ InElement /\ ri >= 1 /\ ScalarVertex(Elem))
    => LET props == Elem.properties
       IN /\ offset = elemStart + ri * Stride(props)
          /\ Len(reads) = Len(props)
          /\ \A j \in 1..Len(reads) :
                /\ reads[j].at = elemStart + (ri - 1) * Stride(props)
                                 + WidthBefore(props, j)
                /\ reads[j].size = Width(props[j])

(* Two records of 15 bytes (three floats, three uchars) have been decoded. *)
C3_Witness ==
    /\ pc = "binary" /\ InElement /\ ri = 2 /\ ScalarVertex(Elem)
    /\ Stride(Elem.properties) = 15
    /\ offset = elemStart + 30
    /\ reads[4].at = elemStart + 27 /\ reads[4].size = 1

(* C4: every colour component a vertex record appends is normalize(v) =    *)
(* (v > 1 ? v / 255 : v) of the raw value decoded for it, for red, green   *)
(* and blue separately, in both modes.  The code violates it: it stores    *)
(* v / 255 whatever v is.                                                  *)
C4_ColoursNormalized ==
    (/\ pc \in {"ascii", "binary"} /\ InElement /\ ri >= 1
     /\ Elem.name = S_vertex /\ rec.r # Undef)
    => LastColor = <<normalizeColor(rec.r), normalizeColor(rec.g),
                     normalizeColor(rec.b)>>

(* C5: every face handler emits, for a list of three indices, that one     *)
(* triangle, and for a list [a, b, c, d], the triangles (a, b, c) and      *)
(* (c, d, a).  handleElement of src/unnamed/part_001 violates it: it emits *)
(* (a, b, d) and (b, c, d).                                                *)
C5_QuadConvention ==
    (pc = "faced" /\ Len(faceList) \in {3, 4})
    => indices = IF Len(faceList) = 3 THEN faceList
                 ELSE <<faceList[1], faceList[2], faceList[3],
                        faceList[3], faceList[4], faceList[1]>>

(* C6: parseBinary returns a geometry only when the cursor after the last  *)
(* element equals the payload length, the input length minus headerLength. *)
(* The code violates it: bytes left unread are not an error.               *)
C6_CursorAtPayloadEnd ==
    (pc = "done" /\ header.format # S_ascii)
    => offset = Len(bytes) - headerLength

(* C7: parseASCII returns a geometry only when every token it consumed was *)
(* there: the token index never passes the end of the body.  The code      *)
(* violates it: a missing token reads as NaN and the geometry is returned. *)
C7_NoMissingTokens ==
    (pc = "done" /\ header.format = S_ascii) => idx <= TokenCount(body)

(* C8: when end_header is the last bytes of the header, with no line break *)
(* after it, extractHeader succeeds and headerLength is the index right    *)
(* after the token.  The code violates it: the line is only compared at a  *)
(* line break.                                                             *)
C8_BareTerminator ==
    (/\ file # NoFile /\ pc # "start"
     /\ file.term = S_end_header /\ file.termEol = <<>>)
    => (/\ err # "HeaderNotFound"
        /\ headerLength = Len(FileHead(file)) + Len(S_end_header))

(* C9: for LF and for CRLF headers, headerLength is the index of the first *)
(* body byte, the byte after the line break that ends the end_header line. *)
(* The code violates it for CRLF: it stops after the \r.                   *)
C9_HeaderLengthIsBodyStart ==
    (/\ file # NoFile /\ pc # "start"
     /\ file.term = S_end_header /\ file.termEol = file.eol)
    => (/\ err # "HeaderNotFound"
        /\ headerLength = BodyStart(file))

(* C10: on a buffer that does not contain end_header, of any length, parse *)
(* fails with the header-not-found error: the call is at its start or has  *)
(* thrown that error, and nothing of a later stage has been produced.      *)
C10_NoTerminatorFails ==
    ~Contains(bytes, S_end_header)
    => /\ pc \in {"start", "error"}
       /\ pc = "error" => err = "HeaderNotFound"
       /\ header = NoHeader
       /\ vertices = <<>> /\ colors = <<>> /\ indices = <<>>
       /\ geo = NoGeometry

(* The error has been thrown on a buffer with a header whose terminator    *)
(* line lacks its last character.                                          *)
C10_Witness ==
    /\ pc = "error" /\ err = "HeaderNotFound"
    /\ ~Contains(bytes, S_end_header)
    /\ Contains(bytes, SubSeq(S_end_header, 1, 9))
    /\ Len(bytes) > Len(S_end_header)

(* The vertex elements of a schema. *)
VertexElems(elements) ==
    {k \in 1..Len(elements) : elements[k].name = S_vertex}

(* The property names an element declares. *)
Declared(e) == {e.properties[j].name : j \in 1..Len(e.properties)}

(* An index that is a position of a geometry of n vertices. *)
ValidIndex(v, n) == IsNum(v) /\ v.d = 1 /\ 0 <= v.n /\ v.n < n

(* C11: in every geometry parse returns, every index is an integer i with  *)
(* 0 <= i < the number of vertex records decoded.  The code violates it:   *)
(* the items of a face list are pushed without being compared with the     *)
(* vertex count.                                                           *)
C11_IndicesInRange ==
    pc = "done"
    => /\ geo.index = indices
       /\ \A i \in 1..Len(geo.index) :
             ValidIndex(geo.index[i], Len(geo.position) \div 3)

(* C12: in every geometry parse returns, a colour attribute that is        *)
(* present has as many values as the position attribute, one triple per    *)
(* position triple; so with vertex elements of which only some declare     *)
(* colours, and with no vertex at all.                                     *)
C12_ColourPerPosition ==
    pc = "done"
    => /\ Len(geo.position) = Len(vertices)
       /\ Len(geo.position) % 3 = 0
       /\ geo.hasColor => Len(geo.color) = Len(geo.position)

(* A geometry was returned without colours for two vertex elements with    *)
(* records, of which only the second declares colours.                     *)
C12_Witness ==
    /\ pc = "done"
    /\ Cardinality(VertexElems(header.elements)) = 2
    /\ \E k \in VertexElems(header.elements) :
          S_red \notin Declared(header.elements[k])
    /\ Len(colors) > 0 /\ Len(vertices) > Len(colors)
    /\ ~geo.hasColor

(* The type spellings a schema uses: scalar, count and item types. *)
TypesOf(elements) ==
    UNION {UNION {IF elements[k].properties[j].type = S_list
                  THEN {elements[k].properties[j].countType,
                        elements[k].properties[j].itemType}
                  ELSE {elements[k].properties[j].type} :
                  j \in 1..Len(elements[k].properties)} :
           k \in 1..Len(elements)}

(* A count token: one or more digits. *)
ValidCount(tok) ==
    tok # <<>> /\ \A i \in 1..Len(tok) : IsDigit(tok[i])

(* C13: a vertex record appends colour values only when the element's red, *)
(* green and blue all resolve to declared properties; an element that      *)
(* declares only some of them appends nothing, so never a colour triple    *)
(* with an undefined component.  The code violates it: it tests red alone. *)
C13_ColourNeedsAllThree ==
    [][(/\ pc \in {"ascii", "binary"} /\ MoreRecords
        /\ Elem.name = S_vertex
        /\ ~({S_red, S_green, S_blue} \subseteq Declared(Elem)))
       => colors' = colors]_vars

(* C14: a vertex element with records that does not declare x, y and z all *)
(* makes the call fail: decoding a record of it throws and appends no      *)
(* position triple.  The code violates it: the triple is pushed with the   *)
(* unresolved component undefined.                                         *)
C14_PositionRequired ==
    [][(/\ pc \in {"ascii", "binary"} /\ MoreRecords
        /\ Elem.name = S_vertex
        /\ ~({S_x, S_y, S_z} \subseteq Declared(Elem)))
       => (pc' = "error" /\ vertices' = vertices)]_vars

(* C15: when the header declares a property whose scalar, count or item    *)
(* type is none of the 16 accepted spellings, parse returns no geometry,   *)
(* in ASCII as in binary, and no record of any element is decoded.  The    *)
(* code violates it: parseASCII reads such a value with parseFloat, and    *)
(* parseBinary fails only when it calls the undefined reader.              *)
C15_UnknownTypeFails ==
    (header.ok /\ ~(TypesOf(header.elements) \subseteq KnownTypes))
    => /\ pc # "done"
       /\ vertices = <<>> /\ indices = <<>>

(* C16: parseHeader returns no schema for a header with an element line    *)
(* whose count token is not a non-negative integer (missing, a word,       *)
(* negative, or digits followed by other characters).  The code violates   *)
(* it: the count is parseInt of the token, NaN or negative or the value of *)
(* the leading digits, and the decoders loop zero times or that many.      *)
C16_CountValidated ==
    (file # NoFile /\ header.ok)
    => \A k \in 1..Len(file.elems) : ValidCount(file.elems[k].count)

(* The body units (bytes, or tokens) of record r of element k of f. *)
RecordUnits(f, k, r) ==
    IF f.fmt = S_ascii THEN Len(TextRecord(f.elems[k].recs[r]))
    ELSE Len(RecordBytes(f, k, r))

RECURSIVE RecordAt(_, _, _)
(* Where record r of element k of f starts in the body, in body units. *)
RecordAt(f, k, r) ==
    IF r = 1 THEN ElementStart(f, k)
    ELSE RecordAt(f, k, r - 1) + RecordUnits(f, k, r - 1)

(* The decoder's cursor: the token index, or the byte offset. *)
Cursor == IF pc = "ascii" THEN idx ELSE offset

(* C17: decoding, from where it starts in a complete body, a record of a   *)
(* face element declared with the index list as its first property, whose  *)
(* list has a length other than 3 and 4, leaves indices unchanged, raises  *)
(* no error, and moves the cursor over the length prefix and every item of *)
(* the list: in a face element of that one property, to the next record.   *)
C17_OtherLengthsDropped ==
    [][(/\ pc \in {"ascii", "binary"} /\ MoreRecords
        /\ Elem.name = S_face
        /\ file # NoFile /\ file.cut = 0
        /\ headerLength = BodyStart(file)
        /\ ei <= Len(file.elems) /\ ri < Len(file.elems[ei].recs)
        /\ Cursor = RecordAt(file, ei, ri + 1)
        /\ file.elems[ei].props[1].type = S_list
        /\ file.elems[ei].props[1].countType \in KnownTypes
        /\ file.elems[ei].props[1].itemType \in KnownTypes
        /\ Len(file.elems[ei].recs[ri + 1][1].items) \notin {3, 4})
       => (/\ indices' = indices
           /\ pc' = pc /\ err' = "none"
           /\ ri' = ri + 1
           /\ Cursor' = Cursor
                + (IF pc = "ascii" THEN 1
                   ELSE Width([type |-> file.elems[ei].props[1].countType]))
                + Len(file.elems[ei].recs[ri + 1][1].items)
                  * (IF pc = "ascii" THEN 1
                     ELSE Width([type |-> file.elems[ei].props[1].itemType]))
           /\ Len(file.elems[ei].props) = 1
              => Cursor' = RecordAt(file, ei, ri + 1)
                           + RecordUnits(file, ei, ri + 1))]_vars

(* A face record of five indices was decoded in binary: six bytes read,    *)
(* no index emitted.                                                       *)
C17_Witness ==
    /\ pc = "binary" /\ InElement /\ Elem.name = S_face /\ ri = 1
    /\ file # NoFile /\ file.cut = 0
    /\ Len(file.elems[ei].recs[1][1].items) = 5
    /\ Len(reads) = 6
    /\ offset = elemStart + 6
    /\ indices = <<>>

(* C18: parsing the ASCII example (vertex 3 with x y z red green blue,     *)
(* face 1 with list uchar int vertex_indices, body 0 0 0 255 0 0 /         *)
(* 1 0 0 0 255 0 / 0 1 0 0 0 255 / 3 0 1 2) throws nothing and returns     *)
(* positions (0,0,0),(1,0,0),(0,1,0), colours (1,0,0),(0,1,0),(0,0,1) and  *)
(* indices (0,1,2).                                                        *)
C18_AsciiExample ==
    bytes = ExampleBytes
    => /\ pc # "error"
       /\ pc = "done"
          => geo = [position |-> [i \in 1..9 |-> Num(IF i \in {4, 8} THEN 1 ELSE 0)],
                    hasColor |-> TRUE,
                    color |-> [i \in 1..9 |-> Num(IF i \in {1, 5, 9} THEN 1 ELSE 0)],
                    hasIndex |-> TRUE,
                    index |-> <<Num(0), Num(1), Num(2)>>]

(* The call on the example has returned, all 22 body tokens consumed. *)
C18_Witness ==
    /\ bytes = ExampleBytes
    /\ pc = "done"
    /\ Len(body) = 22 /\ idx = 22

(* C19: in each binary decoder, every read made at cursor position c takes *)
(* its bytes from input index headerLength + c, so the first value decoded *)
(* starts at the byte at index headerLength.  parseBinary of               *)
(* src/unnamed/part_001 violates it: it reads at headerLength + c of a     *)
(* view that already starts at headerLength.                               *)
C19_HeaderLengthOnce ==
    \A j \in 1..Len(reads) : reads[j].from = headerLength + reads[j].at

(* C20: for every schema and integer-valued records, parse of the ASCII    *)
(* encoding and parse of the binary encoding either both throw or both     *)
(* return, with equal positions, colours and indices.  The code violates   *)
(* it for a vertex element with a list property, for a face element with a *)
(* property besides the index list, and for files with an element that is  *)
(* neither vertex nor face.                                                *)
C20_AsciiMatchesBinary ==
    (prior.set /\ pc \in {"done", "error"})
    => /\ prior.failed <=> pc = "error"
       /\ ~prior.failed => geo = prior.geo

(* The whitespace-separated tokens of the text that follows the header     *)
(* extractHeader located: the decoded text from offset n on.               *)
TokensAfterHeader(buf, n) ==
    SplitWS(Trim(SubSeq(TextDecode(buf), n + 1, Len(buf))))

(* C21: the token sequence parseASCII decodes as the body is the text      *)
(* after the line that equals "end_header", the place where extractHeader  *)
(* located the end of the header, also when "end_header" occurs earlier    *)
(* inside the header; no header text is decoded as body tokens.            *)
C21_BodyStartsAfterHeader ==
    (pc \in {"ascii", "done"} /\ header.format = S_ascii)
        => body = TokensAfterHeader(bytes, headerLength)

(* The same property for the data whose only "end_header" is the           *)
(* terminator line.                                                        *)
C21_SingleTerminator ==
    (/\ pc \in {"ascii", "done"}
     /\ header.format = S_ascii
     /\ IndexFrom(TextDecode(bytes), S_end_header,
                  IndexFrom(TextDecode(bytes), S_end_header, 1) + 1) = 0)
        => body = TokensAfterHeader(bytes, headerLength)

(***************************************************************************)
(* load: the callback each loader hands to FileLoader, from the completion *)
(* of the fetch to the callback's return.  The caller supplies onLoad,     *)
(* which may throw, and may or may not supply onError.  load.calls lists   *)
(* the invocations of the caller's callbacks in order, load.logged the     *)
(* errors given to console.error, load.itemErrors the manager.itemError    *)
(* calls.  The part loaders are run on binary files.                       *)
(***************************************************************************)
loadFrame ==
    <<file, path, faceList, prior, headerVars, cursorVars, outVars>>

(* The fetch completes with data: the callback starts and calls parse. *)
LoadData(loader, start) ==
    /\ load.active /\ path = loader
    /\ pc = "fetch"
    /\ bytes' = Encode(file)
    /\ pc' = start
    /\ UNCHANGED <<loadFrame, err, load>>

(* onLoad(parse(data)) once parse has returned; what onLoad throws is      *)
(* thrown inside the try block.                                            *)
LoadDeliver(loader) ==
    /\ load.active /\ path = loader
    /\ pc = "done"
    /\ load' = [load EXCEPT !.calls =
                    Append(@, [fn |-> "onLoad", geo |-> geo, err |-> "none"])]
    /\ IF load.onLoadThrows
       THEN Throw("CallbackError")
       ELSE pc' = "returned" /\ err' = err
    /\ UNCHANGED <<loadFrame, bytes>>

(* if (onError) onError(e); else console.error(e); *)
ReportError(l, e) ==
    IF l.onError
    THEN [l EXCEPT !.calls =
              Append(@, [fn |-> "onError", geo |-> NoGeometry, err |-> e])]
    ELSE [l EXCEPT !.logged = Append(@, e)]

(* src/PLYLoader.js, load, line 29: the callback is entered. *)
LoadFetched == LoadData("PLYLoader", "start")

(* src/PLYLoader.js, load, line 31. *)
LoadOnLoad == LoadDeliver("PLYLoader")

(* src/PLYLoader.js, load, lines 32-34: the catch block logs and returns. *)
LoadCatch ==
    /\ load.active /\ path = "PLYLoader"
    /\ pc = "error"
    /\ load' = [load EXCEPT !.logged = Append(@, err)]
    /\ pc' = "returned"
    /\ UNCHANGED <<loadFrame, bytes, err>>

(* src/unnamed/part_000, load, line 30. *)
Load000Fetched == LoadData("part_000", "start000")

(* src/unnamed/part_000, load, line 32. *)
Load000OnLoad == LoadDeliver("part_000")

(* src/unnamed/part_000, load, lines 33-36. *)
Load000Catch ==
    /\ load.active /\ path = "part_000"
    /\ pc = "error"
    /\ load' = ReportError(load, err)
    /\ pc' = "returned"
    /\ UNCHANGED <<loadFrame, bytes, err>>

(* src/unnamed/part_001, load, line 27. *)
Load001Fetched == LoadData("part_001", "start001")

(* src/unnamed/part_001, load, line 29. *)
Load001OnLoad == LoadDeliver("part_001")

(* src/unnamed/part_001, load, lines 30-34. *)
Load001Catch ==
    /\ load.active /\ path = "part_001"
    /\ pc = "error"
    /\ load' = [ReportError(load, err) EXCEPT !.itemErrors = Append(@, "url")]
    /\ pc' = "returned"
    /\ UNCHANGED <<loadFrame, bytes, err>>

(* The files fetched: binary files for every loader, and complete ASCII    *)
(* files for src/PLYLoader.js.                                             *)
LoadFiles(loader) ==
    IF loader = "PLYLoader" THEN BinaryFiles \cup PairFiles ELSE BinaryFiles

(* load has been called and the request is in flight. *)
InitLoad ==
    \E loader \in {"PLYLoader", "part_000", "part_001"},
       hasOnError \in BOOLEAN, throws \in BOOLEAN :
        \E f \in LoadFiles(loader) :
            /\ file = f
            /\ bytes = <<>>
            /\ pc = "fetch"
            /\ path = loader
            /\ load = [NoLoad EXCEPT !.active = TRUE, !.onError = hasOnError,
                                     !.onLoadThrows = throws]
            /\ err = "none"
            /\ headerText = <<>> /\ headerLength = 0 /\ header = NoHeader
            /\ body = <<>> /\ idx = 0 /\ offset = 0
            /\ ei = 0 /\ ri = 0 /\ elemStart = 0
            /\ reads = <<>> /\ rec = NoRec
            /\ vertices = <<>> /\ colors = <<>> /\ indices = <<>>
            /\ geo = NoGeometry
            /\ faceList = <<>>
            /\ prior = NoOutcome

NextLoad ==
    \/ LoadFetched
    \/ LoadOnLoad
    \/ LoadCatch
    \/ Load000Fetched
    \/ Load000OnLoad
    \/ Load000Catch
    \/ Load001Fetched
    \/ Load001OnLoad
    \/ Load001Catch
    \/ ExtractHeader
    \/ ParseHeader
    \/ EnterASCII
    \/ EnterBinary
    \/ BinaryVertexRecord
    \/ BinaryFaceRecord
    \/ BinaryOtherRecord
    \/ BinaryNextElement
    \/ BinaryReturn
    \/ AsciiVertexRecord
    \/ AsciiFaceRecord
    \/ AsciiNextElement
    \/ AsciiReturn
    \/ Part000Enter
    \/ Part000Record
    \/ Part000NextElement
    \/ Part000Return
    \/ Part001Enter
    \/ Part001Record
    \/ Part001NextElement
    \/ Part001Return

(* The callback is one JavaScript task: once the fetch has completed it    *)
(* runs to its return.                                                     *)
SpecLoad == InitLoad /\ [][NextLoad]_vars /\ WF_vars(NextLoad)

(* parse threw: the error caught is not one thrown by onLoad. *)
ParseThrew == err \notin {"none", "CallbackError"}

(* C22: for every load call whose fetch completes with data, when the      *)
(* callback has returned exactly one of the caller's callbacks has been    *)
(* invoked, exactly once: onLoad with the geometry when parse succeeded,   *)
(* onError with the error when parse threw; a parse failure is never       *)
(* swallowed, and onError is never invoked after onLoad.                   *)
C22_OneCallbackOnce ==
    (load.active /\ load.onError /\ pc = "returned")
        => load.calls =
            IF ParseThrew
            THEN <<[fn |-> "onError", geo |-> NoGeometry, err |-> err]>>
            ELSE <<[fn |-> "onLoad", geo |-> geo, err |-> "none"]>>

(* The same property for the part loaders given an onLoad that returns. *)
C22_PartLoadersReport ==
    (/\ load.active /\ load.onError /\ ~load.onLoadThrows
     /\ path # "PLYLoader"
     /\ pc = "returned")
        => load.calls =
            IF ParseThrew
            THEN <<[fn |-> "onError", geo |-> NoGeometry, err |-> err]>>
            ELSE <<[fn |-> "onLoad", geo |-> geo, err |-> "none"]>>

(* A load whose parse threw has returned. *)
C22_ParseFailed == load.active /\ pc = "returned" /\ ParseThrew
====
